---- MODULE Spec2Model ----
(***************************************************************************)
(* Model of the ruleshub tool of mcp-devtools: the rule acquisition and    *)
(* retrieval pipeline (parser, directory loader, orchestrator, in-memory   *)
(* repository) and the lazily initialising RuleHubTool in front of it.     *)
(*                                                                         *)
(* The repository holds two builds of RuleHubTool: the single-file tool of *)
(* internal/tools/ruleshub/ruleshub.go ("simple") and the modular tool of  *)
(* docs/tools/ruleshub.md, which drives orchestrator.go, loader.go and     *)
(* repository.go ("modular").  The variable impl says which one runs.      *)
(*                                                                         *)
(* Strings the code inspects character by character (rule ids, loader type *)
(* tags) are sequences of one-character strings; index tokens of variable  *)
(* names are sequences of character codes (0..9 digits, 10 a letter,       *)
(* 11 '+', 12 '-').  All other strings are opaque.                         *)
(***************************************************************************)
EXTENDS Integers, Sequences, FiniteSets, TLC

\* ------------------------------------------------------------------ bounds

NumCallers == 2   \* concurrent callers of Execute
MaxCalls == 3     \* Execute calls in one behaviour
MaxEdits == 2     \* changes of the environment in one behaviour
MaxFiles == 3     \* files of the scanned directory
MaxBatch == 2     \* rules in one AddRulesMetadata batch
MaxIdLen == 3     \* characters of a rule id drawn from the alphabet

Callers == 1..NumCallers

\* ------------------------------------------------------------------ state

VARIABLES
    impl,           \* which RuleHubTool is built: "simple" or "modular"
    tagArrays,      \* the backing arrays of the tag slices callers build themselves
    env,            \* the process environment
    fs,             \* the file system
    loaders,        \* orchestrator.loaders, in registration order
    sourceOptions,  \* orchestrator.sourceOptions.Sources
    initialized,    \* RuleHubTool.initialized
    initMutex,      \* modular RuleHubTool.initMutex: its holder, 0 when free
    mu,             \* simple RuleHubTool.mu: writer (0 when none) and readers
    store,          \* simple RuleHubTool.rules / InMemoryRepository.rules
    pc,             \* where each caller's Execute stands
    ctxDone,        \* whether each caller's context is cancelled
    args,           \* each caller's arguments
    ret,            \* what each caller's last Execute returned
    loc,            \* each caller's locals of the load pass
    loadPasses,     \* load passes started so far
    callsLeft,      \* Execute calls the behaviour may still start
    editsLeft       \* environment changes the behaviour may still make

vars == <<impl, tagArrays, env, fs, loaders, sourceOptions, initialized, initMutex, mu, store,
          pc, ctxDone, args, ret, loc, loadPasses, callsLeft, editsLeft>>

\* ------------------------------------------------------------------ strings

S(str) == <<str>>

\* unicode.ToLower on the letters the model uses
ToLowerCh(c) ==
    CASE c = "A" -> "a"
      [] c = "B" -> "b"
      [] c = "F" -> "f"
      [] c = "Y" -> "y"
      [] OTHER -> c

\* a case mapping that exchanges upper and lower case
ToLowerSwapped(s) ==
    [i \in 1..Len(s) |-> CASE s[i] = "A" -> "a" [] s[i] = "a" -> "A" [] OTHER -> s[i]]

\* strings.ToLower
ToLower(s) == [i \in 1..Len(s) |-> ToLowerCh(s[i])]

\* strings.ReplaceAll(s, " ", "-")
ReplaceSpaces(s) == [i \in 1..Len(s) |-> IF s[i] = " " THEN "-" ELSE s[i]]

\* strings.EqualFold
EqualFold(a, b) == ToLower(a) = ToLower(b)

YamlFile == <<"Y", "a", "m", "l", "F", "i", "l", "e">>
yamlfile == ToLower(YamlFile)
OtherType == <<"B", "a", "d">>
NoStr == <<>>

\* strconv.Atoi on an index token: an optional sign, then digits only.
RECURSIVE DigitsValue(_)
DigitsValue(t) ==
    IF t = <<>> THEN 0
    ELSE 10 * DigitsValue(SubSeq(t, 1, Len(t) - 1)) + t[Len(t)]

AllDigits(t) == t # <<>> /\ \A i \in 1..Len(t) : t[i] \in 0..9

Atoi(t) ==
    IF t # <<>> /\ t[1] \in {11, 12}
    THEN IF AllDigits(Tail(t))
         THEN [ok |-> TRUE,
               val |-> IF t[1] = 12 THEN 0 - DigitsValue(Tail(t)) ELSE DigitsValue(Tail(t))]
         ELSE [ok |-> FALSE, val |-> 0]
    ELSE IF AllDigits(t)
         THEN [ok |-> TRUE, val |-> DigitsValue(t)]
         ELSE [ok |-> FALSE, val |-> 0]

\* fmt.Sprintf("%d", n)
RECURSIVE FmtNat(_)
FmtNat(n) == IF n < 10 THEN <<n>> ELSE FmtNat(n \div 10) \o <<n % 10>>

FmtInt(n) == IF n < 0 THEN <<12>> \o FmtNat(0 - n) ELSE FmtNat(n)

\* ------------------------------------------------------------------ rule documents and files

\* A []string value: nil, or a slice header.  arr names the backing array when
\* it is one of tagArrays and the elements are read through it; arr 0 is an
\* array nothing else refers to, whose elements are items.
NoTags == [isNil |-> TRUE, items |-> <<>>, arr |-> 0]
TagList(items) == [isNil |-> FALSE, items |-> items, arr |-> 0]
TagArray(arr) == [isNil |-> FALSE, items |-> <<>>, arr |-> arr]

\* the elements of a []string value
Elements(tags) == IF tags.arr = 0 THEN tags.items ELSE tagArrays[tags.arr]

\* One YAML document as yaml.Unmarshal sees it: readable says whether
\* os.ReadFile succeeds, yaml whether the bytes are well-formed YAML; an absent
\* field is the empty string (tags: nil); ruleIsString says whether the
\* document has a rule key with a string value, which `rule: ""` has too.
Doc(id, description, rule) ==
    [readable |-> TRUE, yaml |-> TRUE, id |-> id, description |-> description,
     language |-> "", tags |-> NoTags, rule |-> rule, ruleIsString |-> rule # ""]

Unreadable == [Doc(<<>>, "", "") EXCEPT !.readable = FALSE]
BadYaml == [Doc(<<>>, "", "") EXCEPT !.yaml = FALSE]

File(name, ext, doc) == [name |-> name, ext |-> ext, doc |-> doc]

Dir(files) == [kind |-> "dir", files |-> files]
RegularFile == [kind |-> "file", files |-> <<>>]
Absent == [kind |-> "none", files |-> <<>>]

PathA == S("/dA")
PathB == S("/dB")
PathMissing == S("/missing")
PathHome == S("~/.mcp-devtools/rules")
Paths == {PathA, PathB, PathMissing, PathHome}

\* os.Stat(path) reporting os.IsNotExist
IsNotExist(fsys, path) == path \notin DOMAIN fsys \/ fsys[path].kind = "none"

\* filepath.Glob(filepath.Join(path, "*." + ext)): the names, in lexical order
\* (a directory's files are kept in that order)
Glob(fsys, path, ext) ==
    IF path \in DOMAIN fsys /\ fsys[path].kind = "dir"
    THEN LET hit == SelectSeq(fsys[path].files, LAMBDA f : f.ext = ext)
         IN  [i \in 1..Len(hit) |-> hit[i].name]
    ELSE <<>>

HasFile(fsys, path, name) ==
    /\ path \in DOMAIN fsys
    /\ \E i \in 1..Len(fsys[path].files) : fsys[path].files[i].name = name

FileDoc(fsys, path, name) ==
    LET i == CHOOSE j \in 1..Len(fsys[path].files) : fsys[path].files[j].name = name
    IN  fsys[path].files[i].doc

\* an AgentRule built without the language of the document
AgentRuleNoLanguage(doc, path, name) ==
    [RuleId |-> doc.id, Description |-> doc.description, Language |-> "",
     Tags |-> IF doc.tags.isNil THEN TagList(<<>>) ELSE doc.tags,
     Source |-> [dir |-> path, name |-> name]]

\* types.go: AgentRule with its FileSource
AgentRule(doc, path, name) ==
    [RuleId |-> doc.id, Description |-> doc.description, Language |-> doc.language,
     Tags |-> IF doc.tags.isNil THEN TagList(<<>>) ELSE doc.tags,
     Source |-> [dir |-> path, name |-> name]]

NoRule == [RuleId |-> <<>>, Description |-> "", Language |-> "", Tags |-> NoTags,
           Source |-> [dir |-> <<>>, name |-> ""]]

\* ParseRule that looks at the description before the id
ParseRuleDescriptionFirst(done, fsys, path, name) ==
    IF done THEN [err |-> "cancelled", rule |-> NoRule]
    ELSE IF ~HasFile(fsys, path, name) THEN [err |-> "file does not exist", rule |-> NoRule]
    ELSE LET doc == FileDoc(fsys, path, name) IN
         IF ~doc.readable THEN [err |-> "reading file", rule |-> NoRule]
         ELSE IF ~doc.yaml THEN [err |-> "parsing YAML", rule |-> NoRule]
         ELSE IF doc.description = "" THEN [err |-> "rule description is required", rule |-> NoRule]
         ELSE IF doc.id = <<>> THEN [err |-> "rule ID is required", rule |-> NoRule]
         ELSE IF doc.rule = "" THEN [err |-> "rule content is required", rule |-> NoRule]
         ELSE [err |-> "", rule |-> AgentRule(doc, path, name)]

\* YamlRuleParser.ParseRule: its error ("" for none) and the rule
ParseRule(done, fsys, path, name) ==
    IF done THEN [err |-> "cancelled", rule |-> NoRule]
    ELSE IF ~HasFile(fsys, path, name) THEN [err |-> "file does not exist", rule |-> NoRule]
    ELSE LET doc == FileDoc(fsys, path, name) IN
         IF ~doc.readable THEN [err |-> "reading file", rule |-> NoRule]
         ELSE IF ~doc.yaml THEN [err |-> "parsing YAML", rule |-> NoRule]
         ELSE IF doc.id = <<>> THEN [err |-> "rule ID is required", rule |-> NoRule]
         ELSE IF doc.description = "" THEN [err |-> "rule description is required", rule |-> NoRule]
         ELSE IF doc.rule = "" THEN [err |-> "rule content is required", rule |-> NoRule]
         ELSE [err |-> "", rule |-> AgentRule(doc, path, name)]

\* parseRuleFile without the default of lines 215-218: nil tags stay nil
SimpleRuleNilTags(doc, path, name) ==
    [ID |-> ToLower(ReplaceSpaces(doc.id)), Description |-> doc.description,
     Language |-> doc.language, Tags |-> doc.tags,
     Content |-> doc.rule, FilePath |-> [dir |-> path, name |-> name]]

\* ruleshub.go: Rule, with its normalised id and the content captured at load
SimpleRule(doc, path, name) ==
    [ID |-> ToLower(ReplaceSpaces(doc.id)), Description |-> doc.description,
     Language |-> doc.language,
     Tags |-> IF doc.tags.isNil THEN TagList(<<>>) ELSE doc.tags,
     Content |-> doc.rule, FilePath |-> [dir |-> path, name |-> name]]

NoSimpleRule == [ID |-> <<>>, Description |-> "", Language |-> "", Tags |-> NoTags,
                 Content |-> "", FilePath |-> [dir |-> <<>>, name |-> ""]]

\* parseRuleFile without its check of the id
parseRuleFileAnyId(fsys, path, name) ==
    IF ~HasFile(fsys, path, name) THEN [err |-> "reading file", rule |-> NoSimpleRule]
    ELSE LET doc == FileDoc(fsys, path, name) IN
         IF ~doc.readable THEN [err |-> "reading file", rule |-> NoSimpleRule]
         ELSE IF ~doc.yaml THEN [err |-> "parsing YAML", rule |-> NoSimpleRule]
         ELSE IF doc.description = "" THEN [err |-> "rule description is required", rule |-> NoSimpleRule]
         ELSE IF doc.rule = "" THEN [err |-> "rule content is required", rule |-> NoSimpleRule]
         ELSE [err |-> "", rule |-> SimpleRule(doc, path, name)]

\* RuleHubTool.parseRuleFile
parseRuleFile(fsys, path, name) ==
    IF ~HasFile(fsys, path, name) THEN [err |-> "reading file", rule |-> NoSimpleRule]
    ELSE LET doc == FileDoc(fsys, path, name) IN
         IF ~doc.readable THEN [err |-> "reading file", rule |-> NoSimpleRule]
         ELSE IF ~doc.yaml THEN [err |-> "parsing YAML", rule |-> NoSimpleRule]
         ELSE IF doc.id = <<>> THEN [err |-> "rule ID is required", rule |-> NoSimpleRule]
         ELSE IF doc.description = "" THEN [err |-> "rule description is required", rule |-> NoSimpleRule]
         ELSE IF doc.rule = "" THEN [err |-> "rule content is required", rule |-> NoSimpleRule]
         ELSE [err |-> "", rule |-> SimpleRule(doc, path, name)]

\* ------------------------------------------------------------------ environment

\* One environment variable.  kind "dir" is RULE_DIRECTORY, kind "lt" is
\* RULESHUB_SOURCES_<tok>_LOADERTYPE, kind "set" is
\* RULESHUB_SOURCES_<tok>_SETTINGS_<key>.
RuleDirectoryVar(val) == [kind |-> "dir", tok |-> <<>>, key |-> "", val |-> val]
LoaderTypeVar(tok, val) == [kind |-> "lt", tok |-> tok, key |-> "", val |-> val]
SettingVar(tok, key, val) == [kind |-> "set", tok |-> tok, key |-> key, val |-> val]

SameName(v, w) == v.kind = w.kind /\ v.tok = w.tok /\ v.key = w.key

\* os.Getenv of a loader type variable's name
GetenvLoaderType(e, tok) ==
    IF \E v \in e : v.kind = "lt" /\ v.tok = tok
    THEN (CHOOSE v \in e : v.kind = "lt" /\ v.tok = tok).val
    ELSE NoStr

GetenvRuleDirectory(e) ==
    IF \E v \in e : v.kind = "dir" THEN (CHOOSE v \in e : v.kind = "dir").val ELSE NoStr

\* loadConfigFromEnv, first loop: the indices found in RULESHUB_SOURCES_ names
SourceIndices(e) ==
    {Atoi(v.tok).val : v \in {w \in e : w.kind \in {"lt", "set"} /\ Atoi(w.tok).ok}}

\* loadConfigFromEnv, settings loop: the variables under the index's
\* settings prefix, keyed by what follows the prefix
SettingsOf(e, index) ==
    LET mine == {v \in e : v.kind = "set" /\ v.tok = FmtInt(index)}
    IN  [k \in {v.key : v \in mine} |-> (CHOOSE v \in mine : v.key = k).val]

SourceOptionsOf(e, index) ==
    [LoaderType |-> GetenvLoaderType(e, FmtInt(index)), Settings |-> SettingsOf(e, index)]

\* loadConfigFromEnv, second loop, over the indices in the order the map
\* iteration yields them: the sources appended so far and the error
RECURSIVE LoadSources(_, _)
LoadSources(e, order) ==
    IF order = <<>> THEN [err |-> "", sources |-> <<>>]
    ELSE LET first == SourceOptionsOf(e, Head(order)) IN
         IF first.LoaderType = NoStr
         THEN [err |-> "loader type not specified", sources |-> <<>>]
         ELSE LET rest == LoadSources(e, Tail(order))
              IN  [err |-> rest.err, sources |-> <<first>> \o rest.sources]

\* loadConfigFromEnv that reads the environment on the first pass only
loadConfigOnce(e, order) ==
    IF loadPasses > 0
    THEN [err |-> "", sources |-> sourceOptions]
    ELSE LoadSources(e, order)

\* loadConfigFromEnv that passes over an index without a loader type
RECURSIVE loadConfigSkipping(_, _)
loadConfigSkipping(e, order) ==
    IF order = <<>> THEN [err |-> "", sources |-> <<>>]
    ELSE LET first == SourceOptionsOf(e, Head(order))
             rest == loadConfigSkipping(e, Tail(order))
         IN  IF first.LoaderType = NoStr THEN rest
             ELSE [err |-> rest.err, sources |-> <<first>> \o rest.sources]

\* loadConfigFromEnv: the source list is rebuilt from the environment
loadConfigFromEnv(e, order) == LoadSources(e, order)

\* the orders in which a Go map over the set s may be iterated
Orders(s) ==
    {o \in [1..Cardinality(s) -> s] : \A i, j \in 1..Cardinality(s) : i # j => o[i] # o[j]}

\* ------------------------------------------------------------------ loaders

\* YamlRuleLoader.LoaderType
LoaderType(l) == YamlFile

\* YamlRuleLoader.CanHandle
CanHandle(l, loaderType) == EqualFold(loaderType, LoaderType(l))

\* a loader selection without the break: the last loader that can handle the
\* type wins
FindLoaderLast(ls, loaderType) ==
    IF \E i \in 1..Len(ls) : CanHandle(ls[i], loaderType)
    THEN CHOOSE i \in 1..Len(ls) :
            /\ CanHandle(ls[i], loaderType)
            /\ \A j \in (i + 1)..Len(ls) : ~CanHandle(ls[j], loaderType)
    ELSE 0

\* orchestrator LoadRules, loader selection: the position in ls of the first
\* loader that can handle the type, 0 when there is none
FindLoader(ls, loaderType) ==
    IF \E i \in 1..Len(ls) : CanHandle(ls[i], loaderType)
    THEN CHOOSE i \in 1..Len(ls) :
            /\ CanHandle(ls[i], loaderType)
            /\ \A j \in 1..(i - 1) : ~CanHandle(ls[j], loaderType)
    ELSE 0

\* YamlRuleLoader.LoadRules up to the file loop: the error of the checks on
\* the context, the options and the directory ("" when the scan can start)
LoaderCheck(done, fsys, options) ==
    IF done THEN "cancelled"
    ELSE IF options.LoaderType = NoStr THEN "loader type is required"
    ELSE IF "Path" \notin DOMAIN options.Settings THEN "path setting is required"
    ELSE IF options.Settings["Path"] = NoStr THEN "path must be a non-empty string"
    ELSE IF IsNotExist(fsys, options.Settings["Path"]) THEN "directory not found"
    ELSE ""

\* ------------------------------------------------------------------ locals

NoOptions == [LoaderType |-> NoStr, Settings |-> <<>>]

\* a diagnostic line printed during a load pass, or the record of a loader call
Diag(ev, si, name, err, ld) == [ev |-> ev, si |-> si, name |-> name, err |-> err, ld |-> ld]

NoLoc ==
    [srcs |-> <<>>, si |-> 0, ld |-> 0, path |-> NoStr, files |-> <<>>, fi |-> 0,
     rules |-> <<>>, lret |-> [rules |-> <<>>, err |-> ""], allRules |-> <<>>, diag |-> {},
     ok |-> FALSE]

NoArgs == [action |-> "", ruleId |-> <<>>]
NoRet == [err |-> "", out |-> {}, n |-> 0]

\* ------------------------------------------------------------------ repository

\* a map write that keeps the language and the tags of the rule it replaces
\* where the new rule has none
PutMerged(st, id, rule) ==
    [k \in DOMAIN st \cup {id} |->
       IF k # id THEN st[k]
       ELSE IF id \notin DOMAIN st THEN rule
       ELSE [rule EXCEPT !.Language = IF rule.Language = "" THEN st[id].Language ELSE @,
                         !.Tags = IF rule.Tags.isNil THEN st[id].Tags ELSE @]]

\* the map write r.rules[rule.RuleId] = rule
Put(st, id, rule) == [k \in DOMAIN st \cup {id} |-> IF k = id THEN rule ELSE st[k]]

\* AddRulesMetadata that ends the loop at the first rule without id
RECURSIVE AddRulesMetadataUntilEmpty(_, _)
AddRulesMetadataUntilEmpty(st, rules) ==
    IF rules = <<>> THEN st
    ELSE IF Head(rules).RuleId = <<>> THEN st
    ELSE AddRulesMetadataUntilEmpty(Put(st, Head(rules).RuleId, Head(rules)), Tail(rules))

\* InMemoryRepository.AddRulesMetadata, the loop under the write lock
RECURSIVE AddRulesMetadata(_, _)
AddRulesMetadata(st, rules) ==
    IF rules = <<>> THEN st
    ELSE IF Head(rules).RuleId = <<>> THEN AddRulesMetadata(st, Tail(rules))
    ELSE AddRulesMetadata(Put(st, Head(rules).RuleId, Head(rules)), Tail(rules))

\* a metadata entry built from the whole rule, content included
MetadataWhole(id, rule) ==
    [ruleId |-> id, description |-> rule.Description, language |-> rule.Language,
     tags |-> rule.Tags,
     content |-> IF "Content" \in DOMAIN rule THEN rule.Content ELSE "",
     hasContent |-> TRUE]

\* the metadata entry both tools build for GetAllRulesMetadata
Metadata(id, rule) ==
    [ruleId |-> id, description |-> rule.Description, language |-> rule.Language,
     tags |-> rule.Tags, content |-> "", hasContent |-> FALSE]

\* the full entry of GetRuleContentById
WithContent(id, rule, content) ==
    [ruleId |-> id, description |-> rule.Description, language |-> rule.Language,
     tags |-> rule.Tags, content |-> content, hasContent |-> TRUE]

\* a source that keeps the content its file had when the tool started
GetRuleContentCached(done, fsys, source) ==
    IF source.name = "" THEN [err |-> "file path is not set", text |-> ""]
    ELSE IF done THEN [err |-> "context canceled", text |-> ""]
    ELSE [err |-> "", text |-> IF source.name = "a1.yaml" THEN "content a" ELSE "content b"]

\* FileSource.GetRuleContent: the error and the text
GetRuleContent(done, fsys, source) ==
    IF source.name = "" THEN [err |-> "file path is not set", text |-> ""]
    ELSE IF done THEN [err |-> "context canceled", text |-> ""]
    ELSE IF ~HasFile(fsys, source.dir, source.name) THEN [err |-> "error reading file", text |-> ""]
    ELSE LET doc == FileDoc(fsys, source.dir, source.name) IN
         IF ~doc.readable THEN [err |-> "error reading file", text |-> ""]
         ELSE IF ~doc.yaml THEN [err |-> "error parsing YAML", text |-> ""]
         ELSE IF ~doc.ruleIsString
         THEN [err |-> "rule content not found or not a string", text |-> ""]
         ELSE [err |-> "", text |-> doc.rule]

\* ------------------------------------------------------------------ Execute

\* Execute returns to its caller
Returns(p, err, out) ==
    /\ ret' = [ret EXCEPT ![p] = [err |-> err, out |-> out, n |-> Cardinality(out)]]
    /\ pc' = [pc EXCEPT ![p] = "idle"]
    /\ ctxDone' = [ctxDone EXCEPT ![p] = FALSE]

\* Execute goes on to its next step
Goto(p, label) ==
    /\ pc' = [pc EXCEPT ![p] = label]
    /\ UNCHANGED <<ret, ctxDone>>

\* an Execute that looks for the action before it initialises, and finds none
CallValidating(p) ==
    /\ pc[p] = "idle"
    /\ callsLeft > 0
    /\ callsLeft' = callsLeft - 1
    /\ args' = [args EXCEPT ![p] = NoArgs]
    /\ Returns(p, "action parameter is required", {})
    /\ UNCHANGED <<impl, tagArrays, env, fs, loaders, sourceOptions, initialized, initMutex, mu,
                   store, loc, loadPasses, editsLeft>>

\* a caller starts Execute with a live context; its arguments are drawn where
\* Execute first reads them
Call(p) ==
    /\ pc[p] = "idle"
    /\ callsLeft > 0
    /\ callsLeft' = callsLeft - 1
    /\ pc' = [pc EXCEPT ![p] = "init"]
    /\ args' = [args EXCEPT ![p] = NoArgs]
    /\ ret' = [ret EXCEPT ![p] = NoRet]
    /\ UNCHANGED <<impl, tagArrays, env, fs, loaders, sourceOptions, initialized, initMutex, mu,
                   store, ctxDone, loc, loadPasses, editsLeft>>

\* the caller's context is cancelled while its Execute runs (nothing reads the
\* context before the lock is taken: a cancellation before that is seen as
\* one right after)
Cancel(p) ==
    /\ pc[p] \notin {"idle", "init", "test"}
    /\ ~ctxDone[p]
    /\ ctxDone' = [ctxDone EXCEPT ![p] = TRUE]
    /\ UNCHANGED <<impl, tagArrays, env, fs, loaders, sourceOptions, initialized, initMutex, mu,
                   store, pc, args, ret, loc, loadPasses, callsLeft, editsLeft>>

\* ------------------------------------------------------------------ modular tool

\* ensureInitialized without its initMutex
LockInitMissing(p) == TRUE

\* t.initMutex.Lock() returns
LockInit(p) == initMutex = 0

\* an error return of ensureInitialized that leaves initMutex locked
FailInitLocked(p, err) ==
    /\ Returns(p, err, {})
    /\ UNCHANGED initMutex
    /\ loc' = [loc EXCEPT ![p] = NoLoc]

\* ensureInitialized: an error return, with the deferred Unlock
FailInit(p, err) ==
    /\ Returns(p, err, {})
    /\ initMutex' = 0
    /\ loc' = [loc EXCEPT ![p] = NoLoc]

\* ensureInitialized that sets the flag before it loads
AcquireFlagFirst(p) ==
    /\ impl = "modular"
    /\ pc[p] = "init"
    /\ LockInit(p)
    /\ IF initialized
       THEN /\ Goto(p, "dispatch")
            /\ UNCHANGED <<initMutex, loc, initialized>>
       ELSE /\ Goto(p, "orch")
            /\ initMutex' = p
            /\ initialized' = TRUE
            /\ loc' = [loc EXCEPT ![p] = NoLoc]
    /\ UNCHANGED <<impl, tagArrays, env, fs, loaders, sourceOptions, mu, store,
                   args, loadPasses, callsLeft, editsLeft>>

\* ensureInitialized up to the call of LoadRules
Acquire(p) ==
    /\ impl = "modular"
    /\ pc[p] = "init"
    /\ LockInit(p)
    /\ IF initialized
       THEN /\ Goto(p, "dispatch")
            /\ UNCHANGED <<initMutex, loc>>
       ELSE /\ Goto(p, "orch")
            /\ initMutex' = p
            /\ loc' = [loc EXCEPT ![p] = NoLoc]
    /\ UNCHANGED <<impl, tagArrays, env, fs, loaders, sourceOptions, initialized, mu, store,
                   args, loadPasses, callsLeft, editsLeft>>

\* LoadRules called after ensureInitialized has given up its lock
OrchBeginUnlocked(p) ==
    /\ pc[p] = "orch"
    /\ loadPasses' = loadPasses + 1
    /\ IF ctxDone[p]
       THEN /\ FailInit(p, "loading rules: context canceled")
            /\ UNCHANGED sourceOptions
       ELSE \E order \in Orders(SourceIndices(env)) :
              LET cfg == loadConfigFromEnv(env, order) IN
              /\ sourceOptions' = cfg.sources
              /\ IF cfg.err # ""
                 THEN FailInit(p, "loading rules: loading configuration")
                 ELSE IF cfg.sources = <<>>
                 THEN FailInit(p, "loading rules: no rule sources configured")
                 ELSE /\ loc' = [loc EXCEPT ![p] = [NoLoc EXCEPT !.srcs = cfg.sources, !.si = 1]]
                      /\ Goto(p, "src")
                      /\ initMutex' = 0
    /\ UNCHANGED <<impl, tagArrays, env, fs, loaders, initialized, mu, store, args, callsLeft, editsLeft>>

\* orchestrator LoadRules up to the loop over the sources
OrchBegin(p) ==
    /\ pc[p] = "orch"
    /\ loadPasses' = loadPasses + 1
    /\ IF ctxDone[p]
       THEN /\ FailInit(p, "loading rules: context canceled")
            /\ UNCHANGED sourceOptions
       ELSE \E order \in Orders(SourceIndices(env)) :
              LET cfg == loadConfigFromEnv(env, order) IN
              /\ sourceOptions' = cfg.sources
              /\ IF cfg.err # ""
                 THEN FailInit(p, "loading rules: loading configuration")
                 ELSE IF cfg.sources = <<>>
                 THEN FailInit(p, "loading rules: no rule sources configured")
                 ELSE /\ loc' = [loc EXCEPT ![p] = [NoLoc EXCEPT !.srcs = cfg.sources, !.si = 1]]
                      /\ Goto(p, "src")
                      /\ UNCHANGED initMutex
    /\ UNCHANGED <<impl, tagArrays, env, fs, loaders, initialized, mu, store, args, callsLeft, editsLeft>>

\* LoadRules, one turn of the loop over the sources up to the loader call,
\* or the return after the last source
SrcBegin(p) ==
    LET l == loc[p] IN
    /\ pc[p] = "src"
    /\ IF l.si > Len(l.srcs)
       THEN /\ Goto(p, "add")
            /\ UNCHANGED <<loc, initMutex>>
       ELSE IF ctxDone[p]
       THEN FailInit(p, "loading rules: context canceled")
       ELSE LET k == FindLoader(loaders, l.srcs[l.si].LoaderType) IN
            /\ IF k = 0
               THEN /\ loc' = [loc EXCEPT ![p].si = l.si + 1,
                                          ![p].diag = l.diag \cup {Diag("no loader", l.si, "", "", 0)}]
                    /\ Goto(p, "src")
               ELSE /\ loc' = [loc EXCEPT ![p].ld = k,
                                          ![p].diag = l.diag \cup {Diag("call", l.si, "", "", k)}]
                    /\ Goto(p, "ldr")
            /\ UNCHANGED initMutex
    /\ UNCHANGED <<impl, tagArrays, env, fs, loaders, sourceOptions, initialized, mu, store,
                   args, loadPasses, callsLeft, editsLeft>>

\* what YamlRuleLoader.LoadRules returns when the file loop sees the context
\* cancelled: return nil, ctx.Err()
LoaderCancelled(rules) == [rules |-> <<>>, err |-> "cancelled"]

\* a file loop that gives up at the first file the parser rejects
AfterParseErrorBreak(rules) == [rules |-> rules, stop |-> TRUE]

\* the file loop's handling of a file the parser rejects: print, continue
AfterParseError(rules) == [rules |-> rules, stop |-> FALSE]

\* YamlRuleLoader.LoadRules up to the loop over the files
LoaderBegin(p) ==
    LET l == loc[p]
        options == l.srcs[l.si]
        e == LoaderCheck(ctxDone[p], fs, options)
    IN
    /\ pc[p] = "ldr"
    /\ IF e # ""
       THEN /\ loc' = [loc EXCEPT ![p].lret = [rules |-> <<>>, err |-> e],
                                  ![p].path = NoStr, ![p].files = <<>>, ![p].fi = 0,
                                  ![p].rules = <<>>]
            /\ Goto(p, "ldrRet")
       ELSE /\ loc' = [loc EXCEPT ![p].path = options.Settings["Path"],
                                  ![p].files = Glob(fs, options.Settings["Path"], "yaml"),
                                  ![p].fi = 1,
                                  ![p].rules = <<>>]
            /\ Goto(p, "file")
    /\ UNCHANGED <<impl, tagArrays, env, fs, loaders, sourceOptions, initialized, initMutex, mu, store,
                   args, loadPasses, callsLeft, editsLeft>>

\* the file loop: its cancellation check, or the return after the last file
FileCheck(p) ==
    LET l == loc[p] IN
    /\ pc[p] = "file"
    /\ IF l.fi > Len(l.files)
       THEN /\ loc' = [loc EXCEPT ![p].lret = [rules |-> l.rules, err |-> ""]]
            /\ Goto(p, "ldrRet")
       ELSE IF ctxDone[p]
       THEN /\ loc' = [loc EXCEPT ![p].lret = LoaderCancelled(l.rules)]
            /\ Goto(p, "ldrRet")
       ELSE /\ Goto(p, "parse")
            /\ UNCHANGED loc
    /\ UNCHANGED <<impl, tagArrays, env, fs, loaders, sourceOptions, initialized, initMutex, mu, store,
                   args, loadPasses, callsLeft, editsLeft>>

\* the file loop: ParseRule on the file and what the loop does with its result
ParseStep(p) ==
    LET l == loc[p]
        r == ParseRule(ctxDone[p], fs, l.path, l.files[l.fi])
        bad == AfterParseError(l.rules)
    IN
    /\ pc[p] = "parse"
    /\ IF r.err # ""
       THEN loc' = [loc EXCEPT ![p].rules = bad.rules,
                               ![p].fi = IF bad.stop THEN Len(l.files) + 1 ELSE l.fi + 1,
                               ![p].diag = l.diag \cup
                                   {Diag("parse error", l.si, l.files[l.fi], r.err, l.ld)}]
       ELSE loc' = [loc EXCEPT ![p].rules = Append(l.rules, r.rule),
                               ![p].fi = l.fi + 1]
    /\ Goto(p, "file")
    /\ UNCHANGED <<impl, tagArrays, env, fs, loaders, sourceOptions, initialized, initMutex, mu, store,
                   args, loadPasses, callsLeft, editsLeft>>

\* a source loop that drops what it has collected when a loader fails
OnSourceErrorReset(allRules) == <<>>

\* the source loop's handling of a loader error: print, continue
OnSourceError(allRules) == allRules

\* LoadRules, the rest of the turn: what it does with the loader's result
OrchCollect(p) ==
    LET l == loc[p] IN
    /\ pc[p] = "ldrRet"
    /\ IF l.lret.err # ""
       THEN loc' = [loc EXCEPT ![p].si = l.si + 1,
                               ![p].allRules = OnSourceError(l.allRules),
                               ![p].diag = l.diag \cup
                                   {Diag("source error", l.si, "", l.lret.err, l.ld)}]
       ELSE loc' = [loc EXCEPT ![p].si = l.si + 1,
                               ![p].allRules = l.allRules \o l.lret.rules]
    /\ Goto(p, "src")
    /\ UNCHANGED <<impl, tagArrays, env, fs, loaders, sourceOptions, initialized, initMutex, mu, store,
                   args, loadPasses, callsLeft, editsLeft>>

\* ensureInitialized that treats a load pass without rules as a failure
AddRulesRejectEmpty(p) ==
    /\ pc[p] = "add"
    /\ IF ctxDone[p] \/ loc[p].allRules = <<>>
       THEN /\ FailInit(p, "adding rules to repository: context canceled")
            /\ UNCHANGED <<initialized, store>>
       ELSE /\ store' = AddRulesMetadata(store, loc[p].allRules)
            /\ initialized' = TRUE
            /\ initMutex' = 0
            /\ loc' = [loc EXCEPT ![p].ok = TRUE]
            /\ Goto(p, "dispatch")
    /\ UNCHANGED <<impl, tagArrays, env, fs, loaders, sourceOptions, mu, args,
                   loadPasses, callsLeft, editsLeft>>

\* a bulk upsert that writes the rules before it looks at the context
AddRulesThenCheck(p) ==
    /\ pc[p] = "add"
    /\ store' = AddRulesMetadata(store, loc[p].allRules)
    /\ IF ctxDone[p]
       THEN /\ FailInit(p, "adding rules to repository: context canceled")
            /\ UNCHANGED initialized
       ELSE /\ initialized' = TRUE
            /\ initMutex' = 0
            /\ loc' = [loc EXCEPT ![p].ok = TRUE]
            /\ Goto(p, "dispatch")
    /\ UNCHANGED <<impl, tagArrays, env, fs, loaders, sourceOptions, mu, args,
                   loadPasses, callsLeft, editsLeft>>

\* ensureInitialized after LoadRules returned the rules: the bulk upsert
AddRules(p) ==
    /\ pc[p] = "add"
    /\ IF ctxDone[p]
       THEN /\ FailInit(p, "adding rules to repository: context canceled")
            /\ UNCHANGED <<initialized, store>>
       ELSE /\ store' = AddRulesMetadata(store, loc[p].allRules)
            /\ initialized' = TRUE
            /\ initMutex' = 0
            /\ loc' = [loc EXCEPT ![p].ok = TRUE]
            /\ Goto(p, "dispatch")
    /\ UNCHANGED <<impl, tagArrays, env, fs, loaders, sourceOptions, mu, args,
                   loadPasses, callsLeft, editsLeft>>

\* Dispatch that answers a query of an id the repository does not hold with
\* an empty success
DispatchLenient(p, a) ==
    /\ impl = "modular"
    /\ pc[p] = "dispatch"
    /\ args' = [args EXCEPT ![p] = a]
    /\ IF a.action = "" THEN Returns(p, "action parameter is required", {})
       ELSE IF a.action = "GetAllRulesMetadata"
       THEN IF ctxDone[p]
            THEN Returns(p, "getting all rules metadata: context canceled", {})
            ELSE Returns(p, "", {Metadata(id, store[id]) : id \in DOMAIN store})
       ELSE IF a.action = "GetRuleContentById"
       THEN IF a.ruleId = <<>>
            THEN Returns(p, "ruleId parameter is required", {})
            ELSE IF ctxDone[p]
            THEN Returns(p, "getting rule metadata: context canceled", {})
            ELSE IF a.ruleId \notin DOMAIN store
            THEN Returns(p, "", {})
            ELSE Goto(p, "content")
       ELSE Returns(p, "unknown action", {})
    /\ UNCHANGED <<impl, tagArrays, env, fs, loaders, sourceOptions, initialized, initMutex, mu, store,
                   loc, loadPasses, callsLeft, editsLeft>>

\* Execute after ensureInitialized: the argument checks and, for
\* GetAllRulesMetadata, the whole query; GetRuleContentById goes on to the
\* rule's source when the repository has the rule
Dispatch(p, a) ==
    /\ impl = "modular"
    /\ pc[p] = "dispatch"
    /\ args' = [args EXCEPT ![p] = a]
    /\ IF a.action = "" THEN Returns(p, "action parameter is required", {})
       ELSE IF a.action = "GetAllRulesMetadata"
       THEN IF ctxDone[p]
            THEN Returns(p, "getting all rules metadata: context canceled", {})
            ELSE Returns(p, "", {Metadata(id, store[id]) : id \in DOMAIN store})
       ELSE IF a.action = "GetRuleContentById"
       THEN IF a.ruleId = <<>>
            THEN Returns(p, "ruleId parameter is required", {})
            ELSE IF ctxDone[p]
            THEN Returns(p, "getting rule metadata: context canceled", {})
            ELSE IF a.ruleId \notin DOMAIN store
            THEN Returns(p, "rule not found", {})
            ELSE Goto(p, "content")
       ELSE Returns(p, "unknown action", {})
    /\ UNCHANGED <<impl, tagArrays, env, fs, loaders, sourceOptions, initialized, initMutex, mu, store,
                   loc, loadPasses, callsLeft, editsLeft>>

\* getRuleContentById after the lookup: rule.Source.GetRuleContent and the result
Content(p) ==
    LET rule == store[args[p].ruleId]
        c == GetRuleContent(ctxDone[p], fs, rule.Source)
    IN
    /\ pc[p] = "content"
    /\ IF c.err # ""
       THEN Returns(p, c.err, {})
       ELSE Returns(p, "", {WithContent(rule.RuleId, rule, c.text)})
    /\ UNCHANGED <<impl, tagArrays, env, fs, loaders, sourceOptions, initialized, initMutex, mu, store,
                   args, loc, loadPasses, callsLeft, editsLeft>>

\* ------------------------------------------------------------------ simple tool

MuFree == [w |-> 0, r |-> {}]

\* t.mu.Lock() returns
LockMu(p) == mu.w = 0 /\ mu.r = {}

\* t.mu.RLock() returns
RLockMu(p) == mu.w = 0

\* a lookup that normalises the id it is asked for
getRuleNormalised(rules, ruleId) ==
    IF ToLower(ReplaceSpaces(ruleId)) \in DOMAIN rules
    THEN <<rules[ToLower(ReplaceSpaces(ruleId))]>> ELSE <<>>

\* getRuleContentById: rule, exists := t.rules[ruleId] (no rule when exists
\* is false)
getRule(rules, ruleId) ==
    IF ruleId \in DOMAIN rules THEN <<rules[ruleId]>> ELSE <<>>

\* ensureInitialized: an error return, with the deferred Unlock
FailSimple(p, err) ==
    /\ Returns(p, err, {})
    /\ mu' = MuFree
    /\ loc' = [loc EXCEPT ![p] = NoLoc]
    /\ UNCHANGED initialized

\* ensureInitialized: return nil after loadRulesFromDirectory succeeded
ReadySimple(p) ==
    /\ initialized' = TRUE
    /\ mu' = MuFree
    /\ Goto(p, "dispatch")

\* getRulesDirectory (the model's paths are absolute)
getRulesDirectory(e) ==
    IF GetenvRuleDirectory(e) # NoStr THEN GetenvRuleDirectory(e) ELSE PathHome

\* ensureInitialized that loads whether or not the tool is initialised
AcquireSimpleAlways(p) ==
    /\ impl = "simple"
    /\ pc[p] = "init"
    /\ LockMu(p)
    /\ Goto(p, "sbegin")
    /\ mu' = [w |-> p, r |-> {}]
    /\ loc' = [loc EXCEPT ![p] = NoLoc]
    /\ UNCHANGED <<impl, tagArrays, env, fs, loaders, sourceOptions, initialized, initMutex, store,
                   args, loadPasses, callsLeft, editsLeft>>

\* ensureInitialized: lock and the initialized check
AcquireSimple(p) ==
    /\ impl = "simple"
    /\ pc[p] = "init"
    /\ LockMu(p)
    /\ IF initialized
       THEN /\ Goto(p, "dispatch")
            /\ UNCHANGED <<mu, loc>>
       ELSE /\ Goto(p, "sbegin")
            /\ mu' = [w |-> p, r |-> {}]
            /\ loc' = [loc EXCEPT ![p] = NoLoc]
    /\ UNCHANGED <<impl, tagArrays, env, fs, loaders, sourceOptions, initialized, initMutex, store,
                   args, loadPasses, callsLeft, editsLeft>>

\* ensureInitialized without the os.MkdirAll of lines 98-101
BeginSimpleNoMkdir(p) ==
    LET dir == getRulesDirectory(env)
        files == Glob(fs, dir, "yaml") \o Glob(fs, dir, "yml")
    IN
    /\ pc[p] = "sbegin"
    /\ loadPasses' = loadPasses + 1
    /\ loc' = [loc EXCEPT ![p].path = dir, ![p].files = files, ![p].fi = 1,
                          ![p].ok = (files = <<>>)]
    /\ IF files = <<>>
       THEN ReadySimple(p)
       ELSE /\ Goto(p, "sfile")
            /\ UNCHANGED <<mu, initialized>>
    /\ UNCHANGED <<impl, tagArrays, env, fs, loaders, sourceOptions, initMutex, store, args,
                   callsLeft, editsLeft>>

\* ensureInitialized from getRulesDirectory to the file loop of
\* loadRulesFromDirectory
BeginSimple(p) ==
    LET dir == getRulesDirectory(env)
        made == IF IsNotExist(fs, dir) THEN [fs EXCEPT ![dir] = Dir(<<>>)] ELSE fs
        files == Glob(made, dir, "yaml") \o Glob(made, dir, "yml")
    IN
    /\ pc[p] = "sbegin"
    /\ IF fs[dir].kind = "file"
       THEN /\ FailSimple(p, "creating rules directory")
            /\ UNCHANGED <<fs, loadPasses>>
       ELSE /\ fs' = made
            /\ loadPasses' = loadPasses + 1
            /\ loc' = [loc EXCEPT ![p].path = dir, ![p].files = files, ![p].fi = 1,
                                  ![p].ok = (files = <<>>)]
            /\ IF files = <<>>
               THEN ReadySimple(p)
               ELSE /\ Goto(p, "sfile")
                    /\ UNCHANGED <<mu, initialized>>
    /\ UNCHANGED <<impl, tagArrays, env, loaders, sourceOptions, initMutex, store, args,
                   callsLeft, editsLeft>>

\* loadRulesFromDirectory: one turn of the file loop, or the return after it
FileSimple(p) ==
    LET l == loc[p]
        r == parseRuleFile(fs, l.path, l.files[l.fi])
    IN
    /\ pc[p] = "sfile"
    /\ IF l.fi > Len(l.files)
       THEN /\ ReadySimple(p)
            /\ loc' = [loc EXCEPT ![p].ok = TRUE]
            /\ UNCHANGED store
       ELSE IF ctxDone[p]
       THEN /\ FailSimple(p, "loading rules: context canceled")
            /\ UNCHANGED store
       ELSE /\ IF r.err # ""
               THEN /\ loc' = [loc EXCEPT ![p].fi = l.fi + 1,
                                          ![p].diag = l.diag \cup
                                              {Diag("parse error", 0, l.files[l.fi], r.err, 0)}]
                    /\ UNCHANGED store
               ELSE /\ store' = Put(store, r.rule.ID, r.rule)
                    /\ loc' = [loc EXCEPT ![p].fi = l.fi + 1,
                                          ![p].rules = Append(l.rules, r.rule)]
            /\ Goto(p, "sfile")
            /\ UNCHANGED <<mu, initialized>>
    /\ UNCHANGED <<impl, tagArrays, env, fs, loaders, sourceOptions, initMutex, args,
                   loadPasses, callsLeft, editsLeft>>

\* DispatchSimple that reads the content from the rule's file at the query
DispatchSimpleReread(p, a) ==
    /\ impl = "simple"
    /\ pc[p] = "dispatch"
    /\ args' = [args EXCEPT ![p] = a]
    /\ IF a.action = "" THEN Returns(p, "action parameter is required", {})
       ELSE IF a.action = "GetAllRulesMetadata"
       THEN /\ RLockMu(p)
            /\ Returns(p, "", {Metadata(id, store[id]) : id \in DOMAIN store})
       ELSE IF a.action = "GetRuleContentById"
       THEN IF a.ruleId = <<>>
            THEN Returns(p, "ruleId parameter is required", {})
            ELSE /\ RLockMu(p)
                 /\ IF a.ruleId \notin DOMAIN store
                    THEN Returns(p, "rule not found", {})
                    ELSE Returns(p, "", {WithContent(store[a.ruleId].ID, store[a.ruleId],
                                                     GetRuleContent(FALSE, fs, store[a.ruleId].FilePath).text)})
       ELSE Returns(p, "unknown action", {})
    /\ UNCHANGED <<impl, tagArrays, env, fs, loaders, sourceOptions, initialized, initMutex, mu, store,
                   loc, loadPasses, callsLeft, editsLeft>>

\* Execute after ensureInitialized: the argument checks and the query
DispatchSimple(p, a) ==
    /\ impl = "simple"
    /\ pc[p] = "dispatch"
    /\ args' = [args EXCEPT ![p] = a]
    /\ IF a.action = "" THEN Returns(p, "action parameter is required", {})
       ELSE IF a.action = "GetAllRulesMetadata"
       THEN /\ RLockMu(p)
            /\ Returns(p, "", {Metadata(id, store[id]) : id \in DOMAIN store})
       ELSE IF a.action = "GetRuleContentById"
       THEN IF a.ruleId = <<>>
            THEN Returns(p, "ruleId parameter is required", {})
            ELSE /\ RLockMu(p)
                 /\ LET found == getRule(store, a.ruleId) IN
                    IF found = <<>>
                    THEN Returns(p, "rule not found", {})
                    ELSE Returns(p, "", {WithContent(found[1].ID, found[1], found[1].Content)})
       ELSE Returns(p, "unknown action", {})
    /\ UNCHANGED <<impl, tagArrays, env, fs, loaders, sourceOptions, initialized, initMutex, mu, store,
                   loc, loadPasses, callsLeft, editsLeft>>

\* ------------------------------------------------------------------ environment changes

\* os.Setenv by the process or its operator
Setenv(v) ==
    /\ editsLeft > 0
    /\ editsLeft' = editsLeft - 1
    /\ v \notin env
    /\ env' = {w \in env : ~SameName(w, v)} \cup {v}
    /\ UNCHANGED <<impl, tagArrays, fs, loaders, sourceOptions, initialized, initMutex, mu, store,
                   pc, ctxDone, args, ret, loc, loadPasses, callsLeft>>

\* ------------------------------------------------------------------ scenarios

Tok0 == <<0>>
Tok2 == <<2>>
Tok5 == <<5>>
Tok07 == <<0, 7>>
TokX == <<10>>

\* rule files: two well-formed ones around one without description, a .yml
\* file, and a second directory that reuses an id
FilesA ==
    << File("a1.yaml", "yaml", Doc(<<"a">>, "first", "content a")),
       File("a2.yaml", "yaml", Doc(<<"b">>, "", "content b")),
       File("a3.yaml", "yaml", Doc(<<"A", " ", "b">>, "third", "content c")),
       File("a4.yml", "yml", Doc(<<"d">>, "fourth", "content d")) >>

FilesB ==
    << File("b1.yaml", "yaml", Doc(<<"a">>, "other", "content e")) >>

FileSystem(filesA, filesB) ==
    [p \in Paths |->
        IF p = PathA THEN Dir(filesA)
        ELSE IF p = PathB THEN Dir(filesB)
        ELSE Absent]

\* the configuration the documentation gives for one directory
Documented(tok, path) == {LoaderTypeVar(tok, YamlFile), SettingVar(tok, "PATH", path)}

\* the configuration the loader reads
Working(tok, lt, path) == {LoaderTypeVar(tok, lt), SettingVar(tok, "Path", path)}

EnvChoices(i) ==
    IF i = "simple"
    THEN {{}, {RuleDirectoryVar(PathA)}}
    ELSE {{},
          Documented(Tok0, PathA),
          Working(Tok0, YamlFile, PathA) \cup Working(Tok2, yamlfile, PathB),
          {SettingVar(Tok0, "Path", PathA)},
          Working(Tok0, YamlFile, PathMissing)}

EditChoices(i) ==
    IF i = "simple"
    THEN {RuleDirectoryVar(PathA), RuleDirectoryVar(PathB)}
    ELSE {LoaderTypeVar(Tok0, YamlFile), SettingVar(Tok0, "Path", PathA)}

ArgChoices ==
    {[action |-> "GetAllRulesMetadata", ruleId |-> <<>>],
     [action |-> "GetRuleContentById", ruleId |-> <<"a">>],
     [action |-> "", ruleId |-> <<>>]}

InitTool ==
    /\ tagArrays = <<>>
    /\ sourceOptions = <<>>
    /\ initialized = FALSE
    /\ initMutex = 0
    /\ mu = MuFree
    /\ store = <<>>
    /\ loadPasses = 0

\* every caller at the same place of Execute, with a live context
InitCallers(label) ==
    /\ pc = [p \in Callers |-> label]
    /\ ctxDone = [p \in Callers |-> FALSE]
    /\ args = [p \in Callers |-> NoArgs]
    /\ ret = [p \in Callers |-> NoRet]
    /\ loc = [p \in Callers |-> NoLoc]

\* the tool as its init() registers it, under one of the configurations
Init ==
    /\ impl \in {"simple", "modular"}
    /\ env \in EnvChoices(impl)
    /\ fs = FileSystem(FilesA, FilesB)
    /\ loaders = <<1>>
    /\ InitTool
    /\ InitCallers("idle")
    /\ callsLeft = MaxCalls
    /\ editsLeft = MaxEdits

Step(p) ==
    \/ Call(p)
    \/ Cancel(p)
    \/ Acquire(p)
    \/ OrchBegin(p)
    \/ SrcBegin(p)
    \/ LoaderBegin(p)
    \/ FileCheck(p)
    \/ ParseStep(p)
    \/ OrchCollect(p)
    \/ AddRules(p)
    \/ \E a \in ArgChoices : Dispatch(p, a)
    \/ Content(p)
    \/ AcquireSimple(p)
    \/ BeginSimple(p)
    \/ FileSimple(p)
    \/ \E a \in ArgChoices : DispatchSimple(p, a)

Next ==
    \/ \E p \in Callers : Step(p)
    \/ \E v \in EditChoices(impl) : Setenv(v)

Spec == Init /\ [][Next]_vars

\* every caller has invoked Execute on the uninitialised tool and none has the
\* lock yet: the concurrent first calls
InitConcurrent ==
    /\ impl \in {"simple", "modular"}
    /\ env \in EnvChoices(impl)
    /\ fs = FileSystem(FilesA, FilesB)
    /\ loaders = <<1>>
    /\ InitTool
    /\ InitCallers("init")
    /\ callsLeft = 0
    /\ editsLeft = MaxEdits

Run(p) ==
    \/ Cancel(p)
    \/ Acquire(p)
    \/ OrchBegin(p)
    \/ SrcBegin(p)
    \/ LoaderBegin(p)
    \/ FileCheck(p)
    \/ ParseStep(p)
    \/ OrchCollect(p)
    \/ AddRules(p)
    \/ \E a \in ArgChoices : Dispatch(p, a)
    \/ Content(p)
    \/ AcquireSimple(p)
    \/ BeginSimple(p)
    \/ FileSimple(p)
    \/ \E a \in ArgChoices : DispatchSimple(p, a)

NextConcurrent ==
    \/ \E p \in Callers : Run(p)
    \/ \E v \in EditChoices(impl) : Setenv(v)

SpecConcurrent == InitConcurrent /\ [][NextConcurrent]_vars

\* what the environment may say about the source of one index token: nothing,
\* a directory of rules, a second directory under a lower-case type tag, a
\* directory that does not exist, a type no loader handles, settings without
\* a loader type, and the documented spelling of the path variable
SourceChoices(tok) ==
    { {},
      Working(tok, YamlFile, PathA),
      Working(tok, yamlfile, PathB),
      Working(tok, YamlFile, PathMissing),
      Working(tok, OtherType, PathA),
      {SettingVar(tok, "Path", PathA)},
      Documented(tok, PathB) }

\* environments over the index tokens "0", "2", "5", "07" and "x"
OrchEnvs ==
    { a \cup b \cup c \cup d :
        a \in SourceChoices(Tok0), b \in SourceChoices(Tok2),
        c \in {{}, Working(Tok5, YamlFile, PathB), Working(Tok5, YamlFile, PathMissing)},
        d \in {{}, Working(Tok07, YamlFile, PathA), Working(TokX, YamlFile, PathA)} }

\* one Execute on the modular tool under any of the environments, with no,
\* one or two YamlRuleLoader registered
InitOrch ==
    /\ impl = "modular"
    /\ env \in OrchEnvs
    /\ fs = FileSystem(FilesA, FilesB)
    /\ loaders \in {<<>>, <<1>>, <<1, 2>>}
    /\ InitTool
    /\ InitCallers("idle")
    /\ callsLeft = 1
    /\ editsLeft = 0

StepOrch(p) ==
    \/ Call(p)
    \/ Cancel(p)
    \/ Acquire(p)
    \/ OrchBegin(p)
    \/ SrcBegin(p)
    \/ LoaderBegin(p)
    \/ FileCheck(p)
    \/ ParseStep(p)
    \/ OrchCollect(p)
    \/ AddRules(p)
    \/ \E a \in ArgChoices : Dispatch(p, a)
    \/ Content(p)

NextOrch == \E p \in Callers : StepOrch(p)

SpecOrch == InitOrch /\ [][NextOrch]_vars

\* the kinds of file a rules directory may hold: well-formed rules, an
\* unreadable file, malformed YAML, rules without id, description or content,
\* and a well-formed .yml file
FileKinds ==
    { [ext |-> "yaml", doc |-> Doc(<<"a">>, "first", "content a")],
      [ext |-> "yaml", doc |-> Doc(<<"A", " ", "b">>, "second", "content b")],
      [ext |-> "yaml", doc |-> Unreadable],
      [ext |-> "yaml", doc |-> BadYaml],
      [ext |-> "yaml", doc |-> Doc(<<>>, "no id", "content c")],
      [ext |-> "yaml", doc |-> Doc(<<"c">>, "", "content c")],
      [ext |-> "yaml", doc |-> Doc(<<"c">>, "no content", "")],
      [ext |-> "yml", doc |-> Doc(<<"d">>, "fourth", "content d")] }

\* file names in the order filepath.Glob lists them
FileNames == <<"f1", "f2", "f3", "f4", "f5", "f6">>

\* the directories of up to MaxFiles files
Directories ==
    UNION { { [i \in 1..n |-> File(FileNames[i], k[i].ext, k[i].doc)] : k \in [1..n -> FileKinds] }
            : n \in 0..MaxFiles }

\* one Execute on a tool whose single source is a directory of any content
InitLoader ==
    /\ impl \in {"simple", "modular"}
    /\ env = IF impl = "simple" THEN {RuleDirectoryVar(PathA)}
             ELSE Working(Tok0, YamlFile, PathA)
    /\ \E files \in Directories : fs = FileSystem(files, <<>>)
    /\ loaders = <<1>>
    /\ InitTool
    /\ InitCallers("idle")
    /\ callsLeft = 1
    /\ editsLeft = 0

NextLoader == \E p \in Callers : Step(p)

SpecLoader == InitLoader /\ [][NextLoader]_vars

\* ------------------------------------------------------------------ rule files edited while the tool runs

\* what an editor can leave in the place of the first rule file: the rule with
\* a new content, with an empty content, without its rule key, with a new
\* description, bytes that are not YAML, or a file that cannot be read
FileEdits ==
    { Doc(<<"a">>, "first", "content new"),
      [Doc(<<"a">>, "first", "") EXCEPT !.ruleIsString = TRUE],
      Doc(<<"a">>, "first", ""),
      Doc(<<"a">>, "described anew", "content a"),
      BadYaml,
      Unreadable }

\* the first rule file of the directory is rewritten
EditFile(doc) ==
    /\ editsLeft > 0
    /\ editsLeft' = editsLeft - 1
    /\ fs[PathA].kind = "dir"
    /\ Len(fs[PathA].files) >= 1
    /\ fs[PathA].files[1].doc # doc
    /\ fs' = [fs EXCEPT ![PathA].files[1].doc = doc]
    /\ UNCHANGED <<impl, tagArrays, env, loaders, sourceOptions, initialized, initMutex, mu,
                   store, pc, ctxDone, args, ret, loc, loadPasses, callsLeft>>

\* the first rule file of the directory is removed
RemoveFile ==
    /\ editsLeft > 0
    /\ editsLeft' = editsLeft - 1
    /\ fs[PathA].kind = "dir"
    /\ Len(fs[PathA].files) >= 1
    /\ fs' = [fs EXCEPT ![PathA].files = Tail(@)]
    /\ UNCHANGED <<impl, tagArrays, env, loaders, sourceOptions, initialized, initMutex, mu,
                   store, pc, ctxDone, args, ret, loc, loadPasses, callsLeft>>

\* a rule file is added to the directory
AddFile ==
    /\ editsLeft > 0
    /\ editsLeft' = editsLeft - 1
    /\ fs[PathA].kind = "dir"
    /\ ~HasFile(fs, PathA, "a3.yaml")
    /\ fs' = [fs EXCEPT ![PathA].files =
                 Append(@, File("a3.yaml", "yaml", Doc(<<"c">>, "third", "content c")))]
    /\ UNCHANGED <<impl, tagArrays, env, loaders, sourceOptions, initialized, initMutex, mu,
                   store, pc, ctxDone, args, ret, loc, loadPasses, callsLeft>>

\* either tool over a directory of two rule files, with Execute calls and
\* edits of the first file in any order
InitEdits ==
    /\ impl \in {"simple", "modular"}
    /\ env = IF impl = "simple" THEN {RuleDirectoryVar(PathA)}
             ELSE Working(Tok0, YamlFile, PathA)
    /\ fs = FileSystem(<<File("a1.yaml", "yaml", Doc(<<"a">>, "first", "content a")),
                         File("a2.yaml", "yaml", Doc(<<"b">>, "second", "content b"))>>, <<>>)
    /\ loaders = <<1>>
    /\ InitTool
    /\ InitCallers("idle")
    /\ callsLeft = MaxCalls
    /\ editsLeft = MaxEdits

NextEdits ==
    \/ \E p \in Callers : Step(p)
    \/ \E doc \in FileEdits : EditFile(doc)
    \/ RemoveFile
    \/ AddFile

SpecEdits == InitEdits /\ [][NextEdits]_vars

\* ------------------------------------------------------------------ repository and parser, called directly

\* AddRuleMetadata without its check of the id
AddRuleMetadataAnyId(done, st, rule) ==
    IF done THEN [err |-> "context canceled", store |-> st]
    ELSE [err |-> "", store |-> Put(st, rule.RuleId, rule)]

\* InMemoryRepository.AddRuleMetadata: the error and the map afterwards
AddRuleMetadata(done, st, rule) ==
    IF done THEN [err |-> "context canceled", store |-> st]
    ELSE IF rule.RuleId = <<>> THEN [err |-> "rule ID is required", store |-> st]
    ELSE [err |-> "", store |-> Put(st, rule.RuleId, rule)]

\* InMemoryRepository.AddRulesMetadata with its context check
AddRulesMetadataCtx(done, st, rules) ==
    IF done THEN [err |-> "context canceled", store |-> st]
    ELSE [err |-> "", store |-> AddRulesMetadata(st, rules)]

\* GetRuleMetadataById that reports an id it does not hold as an error
GetRuleMetadataByIdStrict(done, st, ruleId) ==
    IF done THEN [err |-> "context canceled", rules |-> <<>>]
    ELSE IF ruleId = <<>> THEN [err |-> "rule ID is required", rules |-> <<>>]
    ELSE IF ruleId \notin DOMAIN st THEN [err |-> "rule not found", rules |-> <<>>]
    ELSE [err |-> "", rules |-> <<st[ruleId]>>]

\* InMemoryRepository.GetRuleMetadataById: the error and the rule pointed to
\* (no rule for nil)
GetRuleMetadataById(done, st, ruleId) ==
    IF done THEN [err |-> "context canceled", rules |-> <<>>]
    ELSE IF ruleId = <<>> THEN [err |-> "rule ID is required", rules |-> <<>>]
    ELSE IF ruleId \notin DOMAIN st THEN [err |-> "", rules |-> <<>>]
    ELSE [err |-> "", rules |-> <<st[ruleId]>>]

\* InMemoryRepository.GetAllRulesMetadata: the error and the new slice, filled
\* in the order the map iteration yields the ids
GetAllRulesMetadata(done, st, order) ==
    IF done THEN [err |-> "context canceled", rules |-> <<>>]
    ELSE [err |-> "", rules |-> [i \in 1..Len(order) |-> st[order[i]]]]

\* the rule files of the parser's caller: a rule with language and tags, a
\* rule with neither, a rule without id
RepoFiles ==
    << File("r1.yaml", "yaml",
            [Doc(<<"A", " ", "b">>, "A test rule", "content r1")
               EXCEPT !.language = "go", !.tags = TagList(<<"test", "example">>)]),
       File("r2.yaml", "yaml", Doc(<<"x">>, "plain", "content r2")),
       File("r3.yaml", "yaml", Doc(<<>>, "no id", "content r3")) >>

\* the tag slice the repository's caller builds: []string{"test", "example"}
CallerArrays == << <<"test", "example">> >>

\* the rules the repository's caller builds itself: two rules with one id that
\* differ in every other field, a rule with another id, a rule without id
rule1 ==
    [RuleId |-> <<"x">>, Description |-> "Rule 1", Language |-> "go", Tags |-> TagArray(1),
     Source |-> [dir |-> PathMissing, name |-> "rule1.yaml"]]
rule1b ==
    [RuleId |-> <<"x">>, Description |-> "Rule 1 again", Language |-> "", Tags |-> NoTags,
     Source |-> [dir |-> PathMissing, name |-> "rule1b.yaml"]]
rule2 ==
    [RuleId |-> <<"A", " ", "b">>, Description |-> "Rule 2", Language |-> "python", Tags |-> TagArray(1),
     Source |-> [dir |-> PathMissing, name |-> "rule2.yaml"]]
ruleNoId ==
    [RuleId |-> <<>>, Description |-> "no id", Language |-> "go", Tags |-> NoTags,
     Source |-> [dir |-> PathMissing, name |-> "noid.yaml"]]

CallerRules == {rule1, rule1b, rule2, ruleNoId}

\* the ids the caller asks for: stored ones, one never stored, the empty id
CallerIds == {<<"x">>, <<"A", " ", "b">>, <<"z">>, <<>>}

\* batches of up to MaxBatch rules
Batches == UNION {[1..n -> CallerRules] : n \in 0..MaxBatch}

\* the goroutine of the test that calls the parser and the repository
Tester == 1

\* the rules the tester holds in the variable it keeps returned rules in
Held == loc[Tester].lret.rules

\* a repository or parser call of the tester returns: its name, its error and,
\* for a call that returns rules, the rules
Returned(name, err, rules) ==
    /\ args' = [args EXCEPT ![Tester] = [action |-> name, ruleId |-> <<>>]]
    /\ ret' = [ret EXCEPT ![Tester] = [err |-> err, out |-> {}, n |-> 0]]
    /\ loc' = [loc EXCEPT ![Tester].lret = [rules |-> rules, err |-> err]]

\* parser.ParseRule(ctx, file)
RepoParse(name, done) ==
    LET r == ParseRule(done, fs, PathA, name) IN
    /\ pc[Tester] = "test"
    /\ Returned("ParseRule", r.err, IF r.err = "" THEN <<r.rule>> ELSE <<>>)
    /\ UNCHANGED <<impl, tagArrays, env, fs, loaders, sourceOptions, initialized, initMutex,
                   mu, store, pc, ctxDone, loadPasses, callsLeft, editsLeft>>

\* repo.AddRuleMetadata(ctx, rule) with a rule the tester built or holds
RepoAdd(rule, done) ==
    LET r == AddRuleMetadata(done, store, rule) IN
    /\ pc[Tester] = "test"
    /\ store' = r.store
    /\ Returned("AddRuleMetadata", r.err, Held)
    /\ UNCHANGED <<impl, tagArrays, env, fs, loaders, sourceOptions, initialized, initMutex,
                   mu, pc, ctxDone, loadPasses, callsLeft, editsLeft>>

\* repo.AddRulesMetadata(ctx, batch)
RepoAddAll(batch, done) ==
    LET r == AddRulesMetadataCtx(done, store, batch) IN
    /\ pc[Tester] = "test"
    /\ store' = r.store
    /\ Returned("AddRulesMetadata", r.err, Held)
    /\ UNCHANGED <<impl, tagArrays, env, fs, loaders, sourceOptions, initialized, initMutex,
                   mu, pc, ctxDone, loadPasses, callsLeft, editsLeft>>

\* repo.GetRuleMetadataById(ctx, id)
RepoGet(ruleId, done) ==
    LET r == GetRuleMetadataById(done, store, ruleId) IN
    /\ pc[Tester] = "test"
    /\ Returned("GetRuleMetadataById", r.err, r.rules)
    /\ UNCHANGED <<impl, tagArrays, env, fs, loaders, sourceOptions, initialized, initMutex,
                   mu, store, pc, ctxDone, loadPasses, callsLeft, editsLeft>>

\* repo.GetAllRulesMetadata(ctx)
RepoGetAll(done) ==
    /\ pc[Tester] = "test"
    /\ \E order \in Orders(DOMAIN store) :
         LET r == GetAllRulesMetadata(done, store, order)
         IN  Returned("GetAllRulesMetadata", r.err, r.rules)
    /\ UNCHANGED <<impl, tagArrays, env, fs, loaders, sourceOptions, initialized, initMutex,
                   mu, store, pc, ctxDone, loadPasses, callsLeft, editsLeft>>

\* the tester assigns to an element of the returned slice:
\* rules[i] = AgentRule{...}
RepoSetElement(i) ==
    /\ pc[Tester] = "test"
    /\ i \in 1..Len(Held)
    /\ Held[i] # ruleNoId
    /\ loc' = [loc EXCEPT ![Tester].lret.rules[i] = ruleNoId]
    /\ UNCHANGED <<impl, tagArrays, env, fs, loaders, sourceOptions, initialized, initMutex,
                   mu, store, pc, ctxDone, args, ret, loadPasses, callsLeft, editsLeft>>

\* the tester assigns to an element of a returned rule's tags:
\* rules[i].Tags[0] = ...; the slice header in the returned rule is a copy of
\* the stored one, the backing array is the same
RepoSetTag(i) ==
    /\ pc[Tester] = "test"
    /\ i \in 1..Len(Held)
    /\ Held[i].Tags.arr # 0
    /\ tagArrays[Held[i].Tags.arr][1] # "scribble"
    /\ tagArrays' = [tagArrays EXCEPT ![Held[i].Tags.arr][1] = "scribble"]
    /\ UNCHANGED <<impl, env, fs, loaders, sourceOptions, initialized, initMutex, mu, store,
                   pc, ctxDone, args, ret, loc, loadPasses, callsLeft, editsLeft>>

\* a test in the manner of TestInMemoryRepository and
\* TestYamlRuleParser_ParseRule
InitRepo ==
    /\ impl = "modular"
    /\ env = {}
    /\ fs = FileSystem(RepoFiles, <<>>)
    /\ loaders = <<1>>
    /\ sourceOptions = <<>>
    /\ initialized = FALSE
    /\ initMutex = 0
    /\ mu = MuFree
    /\ store = <<>>
    /\ loadPasses = 0
    /\ tagArrays = CallerArrays
    /\ InitCallers("test")
    /\ callsLeft = 0
    /\ editsLeft = 0

NextRepo ==
    \/ \E name \in {"r1.yaml", "r2.yaml", "r3.yaml", "none.yaml"}, done \in BOOLEAN :
         RepoParse(name, done)
    \/ \E i \in 1..Len(Held), done \in BOOLEAN : RepoAdd(Held[i], done)
    \/ \E rule \in CallerRules, done \in BOOLEAN : RepoAdd(rule, done)
    \/ \E batch \in Batches, done \in BOOLEAN : RepoAddAll(batch, done)
    \/ \E ruleId \in CallerIds, done \in BOOLEAN : RepoGet(ruleId, done)
    \/ \E done \in BOOLEAN : RepoGetAll(done)
    \/ \E i \in 1..Cardinality(CallerIds) : RepoSetElement(i)
    \/ \E i \in 1..Cardinality(CallerIds) : RepoSetTag(i)

SpecRepo == InitRepo /\ [][NextRepo]_vars

\* ------------------------------------------------------------------ vocabulary of the claims

\* ------------------------------------------------------------------ repository under concurrent callers

\* the calls of concurrent goroutines on one repository: two bulk upserts
\* that write the same two ids (the second with a rule without id between
\* them), a single upsert of a third id, and the two reads
SharedCalls ==
    { [name |-> "AddRulesMetadata", rules |-> <<rule1, rule2>>, ruleId |-> <<>>],
      [name |-> "AddRulesMetadata", ruleId |-> <<>>,
       rules |-> <<rule1b, ruleNoId, [rule2 EXCEPT !.Description = "Rule 2 again"]>>],
      [name |-> "AddRuleMetadata", rules |-> <<[rule1 EXCEPT !.RuleId = <<"z">>]>>, ruleId |-> <<>>],
      [name |-> "AddRuleMetadata", rules |-> <<ruleNoId>>, ruleId |-> <<>>],
      [name |-> "GetAllRulesMetadata", rules |-> <<>>, ruleId |-> <<>>],
      [name |-> "GetRuleMetadataById", rules |-> <<>>, ruleId |-> <<"x">>],
      [name |-> "GetRuleMetadataById", rules |-> <<>>, ruleId |-> <<>>] }

\* a repository method returns to its goroutine: the error and the rules
RepoReturns(p, err, rules) ==
    /\ ret' = [ret EXCEPT ![p] = [err |-> err, out |-> {}, n |-> 0]]
    /\ loc' = [loc EXCEPT ![p] = [NoLoc EXCEPT !.lret = [rules |-> rules, err |-> err]]]
    /\ Goto(p, "test")

\* a goroutine calls a repository method: the context check and the
\* validation of the argument, both before the lock
RepoEnter(p, call, done) ==
    /\ pc[p] = "test"
    /\ callsLeft > 0
    /\ callsLeft' = callsLeft - 1
    /\ args' = [args EXCEPT ![p] = [action |-> call.name, ruleId |-> call.ruleId]]
    /\ IF done THEN RepoReturns(p, "context canceled", <<>>)
       ELSE IF \/ call.name = "AddRuleMetadata" /\ call.rules[1].RuleId = <<>>
               \/ call.name = "GetRuleMetadataById" /\ call.ruleId = <<>>
       THEN RepoReturns(p, "rule ID is required", <<>>)
       ELSE /\ loc' = [loc EXCEPT ![p] = [NoLoc EXCEPT !.allRules = call.rules, !.fi = 1]]
            /\ Goto(p, IF call.rules # <<>> THEN "wlock" ELSE "rlock")
            /\ UNCHANGED ret
    /\ UNCHANGED <<impl, tagArrays, env, fs, loaders, sourceOptions, initialized, initMutex,
                   mu, store, ctxDone, loadPasses, editsLeft>>

\* r.mu.Lock() that does not wait for the readers and the writer inside
RepoLockNoWait(p) ==
    /\ pc[p] = "wlock"
    /\ mu' = [mu EXCEPT !.w = p]
    /\ Goto(p, "write")
    /\ UNCHANGED <<impl, tagArrays, env, fs, loaders, sourceOptions, initialized, initMutex,
                   store, ctxDone, args, ret, loc, loadPasses, callsLeft, editsLeft>>

\* r.mu.Lock() returns
RepoLock(p) ==
    /\ pc[p] = "wlock"
    /\ LockMu(p)
    /\ mu' = [mu EXCEPT !.w = p]
    /\ Goto(p, "write")
    /\ UNCHANGED <<impl, tagArrays, env, fs, loaders, sourceOptions, initialized, initMutex,
                   store, ctxDone, args, ret, loc, loadPasses, callsLeft, editsLeft>>

\* AddRuleMetadata and AddRulesMetadata inside the lock: one assignment to
\* the map (none for a rule without id), or the return with the deferred
\* Unlock
RepoWrite(p) ==
    LET l == loc[p] IN
    /\ pc[p] = "write"
    /\ IF l.fi > Len(l.allRules)
       THEN /\ mu' = [mu EXCEPT !.w = 0]
            /\ RepoReturns(p, "", <<>>)
            /\ UNCHANGED store
       ELSE /\ store' = IF l.allRules[l.fi].RuleId = <<>> THEN store
                        ELSE Put(store, l.allRules[l.fi].RuleId, l.allRules[l.fi])
            /\ loc' = [loc EXCEPT ![p].fi = l.fi + 1]
            /\ UNCHANGED <<mu, pc, ret>>
    /\ UNCHANGED <<impl, tagArrays, env, fs, loaders, sourceOptions, initialized, initMutex,
                   ctxDone, args, loadPasses, callsLeft, editsLeft>>

\* r.mu.RLock() returns
RepoRLock(p) ==
    /\ pc[p] = "rlock"
    /\ RLockMu(p)
    /\ mu' = [mu EXCEPT !.r = @ \cup {p}]
    /\ Goto(p, "read")
    /\ UNCHANGED <<impl, tagArrays, env, fs, loaders, sourceOptions, initialized, initMutex,
                   store, ctxDone, args, ret, loc, loadPasses, callsLeft, editsLeft>>

\* GetRuleMetadataById and GetAllRulesMetadata inside the lock: the lookup
\* and the return, or one turn of the loop over the map (in any order) or
\* the return after it, with the deferred RUnlock
RepoRead(p) ==
    LET l == loc[p]
        left == DOMAIN store \ {l.rules[i].RuleId : i \in 1..Len(l.rules)}
    IN
    /\ pc[p] = "read"
    /\ IF args[p].action = "GetRuleMetadataById"
       THEN /\ mu' = [mu EXCEPT !.r = @ \ {p}]
            /\ RepoReturns(p, "", IF args[p].ruleId \in DOMAIN store
                                  THEN <<store[args[p].ruleId]>> ELSE <<>>)
       ELSE IF left = {}
       THEN /\ mu' = [mu EXCEPT !.r = @ \ {p}]
            /\ RepoReturns(p, "", l.rules)
       ELSE /\ \E id \in left : loc' = [loc EXCEPT ![p].rules = Append(l.rules, store[id])]
            /\ UNCHANGED <<mu, pc, ret>>
    /\ UNCHANGED <<impl, tagArrays, env, fs, loaders, sourceOptions, initialized, initMutex,
                   store, ctxDone, args, loadPasses, callsLeft, editsLeft>>

\* goroutines that share the repository NewInMemoryRepository returned
InitShared ==
    /\ impl = "modular"
    /\ env = {}
    /\ fs = FileSystem(RepoFiles, <<>>)
    /\ loaders = <<1>>
    /\ InitTool
    /\ InitCallers("test")
    /\ callsLeft = MaxCalls
    /\ editsLeft = 0

NextShared ==
    \E p \in Callers :
        \/ \E call \in SharedCalls, done \in BOOLEAN : RepoEnter(p, call, done)
        \/ RepoLock(p)
        \/ RepoWrite(p)
        \/ RepoRLock(p)
        \/ RepoRead(p)

SpecShared == InitShared /\ [][NextShared]_vars

\* the caller is inside a load pass that has begun and not yet ended
Loading(p) == pc[p] \in {"src", "ldr", "file", "parse", "ldrRet", "sfile"}

\* the caller is inside ensureInitialized with the lock
Initialising(p) == pc[p] \in {"orch", "add", "sbegin"} \/ Loading(p)

\* the caller is past ensureInitialized, in the query part of Execute
Querying(p) == pc[p] \in {"dispatch", "content"}

PassErrors ==
    {"loading rules: context canceled", "loading rules: loading configuration",
     "loading rules: no rule sources configured",
     "adding rules to repository: context canceled"}

InitErrors == PassErrors \cup {"creating rules directory"}

\* the caller's last Execute ended with a failed initialisation
FailedInit(p) == pc[p] = "idle" /\ ret[p].err \in InitErrors

\* the ids of the rules the caller's successful load pass produced
LoadedIds(p) ==
    IF impl = "modular"
    THEN {loc[p].allRules[i].RuleId : i \in 1..Len(loc[p].allRules)} \ {<<>>}
    ELSE {loc[p].rules[i].ID : i \in 1..Len(loc[p].rules)}

\* ------------------------------------------------------------------ C1

\* C1 as stated: callers that invoke Execute concurrently on the
\* uninitialised tool cause exactly one load pass in total.
C1_ExactlyOnePass ==
    /\ loadPasses <= 1
    /\ (\A p \in Callers : pc[p] = "idle") => loadPasses = 1

\* C1, amended: among concurrent first callers load passes never overlap, at
\* most one pass succeeds and none is started after it; every further pass
\* follows a failed one.
C1_OneSuccessfulPass ==
    LET failed == {p \in Callers : pc[p] = "idle" /\ ret[p].err \in PassErrors}
        live == {p \in Callers : Loading(p) \/ pc[p] = "add" \/ loc[p].ok}
    IN  /\ Cardinality(live) <= 1
        /\ Cardinality({p \in Callers : Initialising(p)}) <= 1
        /\ loadPasses = Cardinality(failed) + Cardinality(live)
        /\ initialized => \A p \in Callers : ~Initialising(p)

\* both callers are through Execute, one loaded the rules, the other one found
\* the tool initialised and ran no pass
C1_Witness ==
    \E p, q \in Callers :
        /\ p # q
        /\ loc[p].ok /\ ~loc[q].ok
        /\ pc[p] = "idle" /\ pc[q] = "idle"
        /\ ret[q].err = "" /\ ret[q].n > 0
        /\ loadPasses = 1

\* ------------------------------------------------------------------ C2

\* the environment names at least one source and every source has a loader type
Configured(e) ==
    /\ SourceIndices(e) # {}
    /\ \A i \in SourceIndices(e) : GetenvLoaderType(e, FmtInt(i)) # NoStr

\* C2: a failed initialisation leaves the tool uninitialised with its lock
\* released, and the next caller to get the lock initialises again; an
\* initialisation fails only for a cancelled context or, when its pass begins,
\* sources that are not configured, so a pass over fixed sources with a live
\* context makes the tool Ready.
C2_RetryAfterFailure ==
    [][\A p \in Callers :
         LET fails == Initialising(p) /\ pc'[p] = "idle" /\ ret'[p].err \in InitErrors
         IN  /\ fails => /\ ~initialized'
                         /\ initMutex' = 0
                         /\ mu' = MuFree
                         /\ \/ ctxDone[p]
                            \/ impl = "modular" /\ pc[p] = "orch" /\ ~Configured(env)
                            \/ impl = "simple" /\ pc[p] = "sbegin"
                                 /\ ret'[p].err = "creating rules directory"
             /\ (pc[p] = "init" /\ pc'[p] # "init" /\ ~initialized) => Initialising(p)'
             /\ (Initialising(p) /\ ~Initialising(p)' /\ ~fails) => initialized'
             /\ (Initialising(p) /\ pc'[p] = "idle") => fails
      ]_vars

\* one caller's initialisation failed for want of sources, the environment was
\* fixed, and another caller's pass loaded the rules
C2_Witness ==
    \E p, q \in Callers :
        /\ p # q
        /\ ret[p].err = "loading rules: no rule sources configured"
        /\ pc[p] = "idle"
        /\ loc[q].ok
        /\ initialized
        /\ DOMAIN store # {}

\* ------------------------------------------------------------------ C3

\* C3: a caller reaches the query part of Execute only when the tool is
\* initialised by a load pass that succeeded and no pass is running, every rule with an id that the
\* completed pass produced is in the rule set, and a successful
\* GetAllRulesMetadata names every such rule.
C3_NoQueryBeforeInit ==
    /\ \A p \in Callers :
         Querying(p) => /\ initialized
                        /\ \E q \in Callers : loc[q].ok
                        /\ \A q \in Callers : ~Initialising(q)
    /\ \A q \in Callers : loc[q].ok => LoadedIds(q) \subseteq DOMAIN store
    /\ \A p, q \in Callers :
         (/\ pc[p] = "idle" /\ ret[p].err = ""
          /\ args[p].action = "GetAllRulesMetadata"
          /\ loc[q].ok)
         => LoadedIds(q) \subseteq {m.ruleId : m \in ret[p].out}

\* a caller that did not load the rules itself asked for all rules and got the
\* rules of the other caller's pass
C3_Witness ==
    \E p, q \in Callers :
        /\ p # q
        /\ loc[q].ok /\ ~loc[p].ok
        /\ LoadedIds(q) # {}
        /\ pc[p] = "idle" /\ ret[p].err = ""
        /\ args[p].action = "GetAllRulesMetadata"
        /\ ret[p].n = Cardinality(LoadedIds(q))

\* ------------------------------------------------------------------ C4

\* a file the parsers accept
GoodFile(f) ==
    /\ f.doc.readable /\ f.doc.yaml
    /\ f.doc.id # <<>> /\ f.doc.description # "" /\ f.doc.rule # ""

\* name and description of every file of the directory with one of the
\* extensions that parses, in the order of the scan
GoodFiles(fsys, path, exts) ==
    LET ofExt(ext) == SelectSeq(fsys[path].files, LAMBDA f : f.ext = ext /\ GoodFile(f))
        all == IF Len(exts) = 2 THEN ofExt(exts[1]) \o ofExt(exts[2]) ELSE ofExt(exts[1])
    IN  [i \in 1..Len(all) |-> <<all[i].name, all[i].doc.description>>]

\* C4: without cancellation a directory load over an existing directory
\* succeeds with exactly the rules of the files that parse, in scan order,
\* whatever files fail and wherever they stand: YamlRuleLoader.LoadRules
\* returns them, loadRulesFromDirectory stores each of them.
C4_BadFilesIsolated ==
    \A p \in Callers :
        /\ (impl = "modular" /\ pc[p] = "ldrRet" /\ loc[p].fi >= 1 /\ ~ctxDone[p])
           => /\ loc[p].lret.err = ""
              /\ [i \in 1..Len(loc[p].lret.rules) |->
                    <<loc[p].lret.rules[i].Source.name, loc[p].lret.rules[i].Description>>]
                 = GoodFiles(fs, loc[p].path, <<"yaml">>)
        /\ (impl = "simple" /\ loc[p].ok)
           => /\ initialized
              /\ [i \in 1..Len(loc[p].rules) |->
                    <<loc[p].rules[i].FilePath.name, loc[p].rules[i].Description>>]
                 = GoodFiles(fs, loc[p].path, <<"yaml", "yml">>)
              /\ \A i \in 1..Len(loc[p].rules) : loc[p].rules[i].ID \in DOMAIN store

\* the loader returned two rules from a directory whose first file failed
C4_Witness ==
    \E p \in Callers :
        /\ impl = "modular" /\ pc[p] = "ldrRet" /\ ~ctxDone[p]
        /\ Len(loc[p].lret.rules) = 2
        /\ ~GoodFile(fs[loc[p].path].files[1])
        /\ \E d \in loc[p].diag : d.ev = "parse error"

\* ------------------------------------------------------------------ C10

\* C10 as stated: when the file loop of YamlRuleLoader.LoadRules sees the
\* context cancelled, the loader returns the cancellation together with the
\* rules it has collected.
C10_PartialResults ==
    \A p \in Callers :
        (pc[p] = "ldrRet" /\ loc[p].fi >= 1 /\ loc[p].lret.err = "cancelled")
        => loc[p].lret.rules = loc[p].rules

\* ------------------------------------------------------------------ sources, for C5 to C9

\* the registered loaders that accept the type tag
Handles(t) == {k \in 1..Len(loaders) : CanHandle(loaders[k], t)}

\* the source has a loader and names an existing directory under the key the
\* loader reads
SourceLoads(o) ==
    /\ Handles(o.LoaderType) # {}
    /\ "Path" \in DOMAIN o.Settings
    /\ o.Settings["Path"] # NoStr
    /\ ~IsNotExist(fs, o.Settings["Path"])

\* the rules the first n sources are due to contribute, in processing order
RECURSIVE Expected(_, _)
Expected(srcs, n) ==
    IF n = 0 THEN <<>>
    ELSE Expected(srcs, n - 1) \o
         (IF SourceLoads(srcs[n]) THEN GoodFiles(fs, srcs[n].Settings["Path"], <<"yaml">>)
          ELSE <<>>)

Failing(srcs) == {i \in 1..Len(srcs) : ~SourceLoads(srcs[i])}

\* the caller is inside orchestrator LoadRules, past configuration discovery
InSources(p) == impl = "modular" /\ pc[p] \in {"src", "ldr", "file", "parse", "ldrRet"}

\* the step is one of the caller's own
Moves(p) == pc'[p] # pc[p] \/ loc'[p] # loc[p]

NamesOf(rules) == [i \in 1..Len(rules) |-> <<rules[i].Source.name, rules[i].Description>>]

\* ------------------------------------------------------------------ C5

\* C5: a load pass over several sources of which exactly one fails, with no
\* cancellation, never ends in an error, and when LoadRules returns it returns
\* the rules of all the other sources in processing order.
C5_SourceIsolation ==
    [][\A p \in Callers :
         (/\ InSources(p) /\ ~ctxDone[p]
          /\ Len(loc[p].srcs) >= 2
          /\ Cardinality(Failing(loc[p].srcs)) = 1)
         => /\ pc'[p] # "idle"
            /\ pc'[p] = "add" =>
                 NamesOf(loc'[p].allRules) = Expected(loc[p].srcs, Len(loc[p].srcs))
      ]_vars

\* LoadRules has returned the rules of two directories although the source
\* processed first failed in its loader
C5_Witness ==
    \E p \in Callers :
        /\ pc[p] = "add" /\ ~ctxDone[p]
        /\ Len(loc[p].srcs) = 3
        /\ Failing(loc[p].srcs) = {1}
        /\ \E d \in loc[p].diag : d.ev = "source error" /\ d.si = 1
        /\ Len(loc[p].allRules) >= 3

\* ------------------------------------------------------------------ C6

\* C6 as stated: with sources configured and every one of them failing,
\* initialisation does not end Ready.
C6_TotalFailurePropagates ==
    \A p \in Callers :
        (/\ impl = "modular"
         /\ Len(loc[p].srcs) >= 1
         /\ Failing(loc[p].srcs) = 1..Len(loc[p].srcs))
        => ~loc[p].ok

\* C6, amended: with sources configured, every one of them failing and no
\* cancellation, the load pass goes on to its end, LoadRules returns no rule
\* and no error, and initialisation succeeds with the rule set unchanged.
C6_TotalFailureEndsReady ==
    [][\A p \in Callers :
         (/\ impl = "modular" /\ (InSources(p) \/ pc[p] = "add")
          /\ ~ctxDone[p]
          /\ Len(loc[p].srcs) >= 1
          /\ Failing(loc[p].srcs) = 1..Len(loc[p].srcs))
         => /\ pc'[p] # "idle"
            /\ loc'[p].allRules = <<>>
            /\ (pc[p] = "add" /\ Moves(p)) => /\ initialized' /\ loc'[p].ok
                                              /\ store' = store
                                              /\ pc'[p] = "dispatch"
      ]_vars

\* every source failed, the tool is Ready, and the caller's browse returned
\* no rule and no error
C6_Witness ==
    \E p \in Callers :
        /\ impl = "modular" /\ loc[p].ok /\ initialized
        /\ Len(loc[p].srcs) >= 2
        /\ Failing(loc[p].srcs) = 1..Len(loc[p].srcs)
        /\ \E d \in loc[p].diag : d.ev = "source error"
        /\ pc[p] = "idle" /\ ret[p].err = "" /\ ret[p].n = 0
        /\ args[p].action = "GetAllRulesMetadata"
        /\ DOMAIN store = {}

\* ------------------------------------------------------------------ C7

\* the source as the documentation configures it: type YamlFile and the one
\* setting RULESHUB_SOURCES_<i>_SETTINGS_PATH, naming an existing directory
DocumentedSource(o) ==
    /\ o.LoaderType = YamlFile
    /\ DOMAIN o.Settings = {"PATH"}
    /\ ~IsNotExist(fs, o.Settings["PATH"])

\* the ids of the files of the directory that the modular parser accepts
GoodIds(fsys, path) ==
    {fsys[path].files[i].doc.id :
        i \in {j \in 1..Len(fsys[path].files) :
                 fsys[path].files[j].ext = "yaml" /\ GoodFile(fsys[path].files[j])}}

\* C7 as stated: after an initialisation under the documented configuration
\* the rules of every configured directory are in the repository.
C7_DocumentedConfigLoads ==
    \A p \in Callers :
        (/\ impl = "modular" /\ loc[p].ok
         /\ Len(loc[p].srcs) >= 1
         /\ \A i \in 1..Len(loc[p].srcs) : DocumentedSource(loc[p].srcs[i]))
        => \A i \in 1..Len(loc[p].srcs) :
             GoodIds(fs, loc[p].srcs[i].Settings["PATH"]) \subseteq DOMAIN store

\* ------------------------------------------------------------------ C8

\* C8: configuration discovery with a live context either yields one source
\* per distinct integer index of the environment, each with the loader type
\* and settings of that index, or, when some index has no LOADERTYPE variable
\* under its decimal name, fails LoadRules with a configuration error before
\* any loader is selected.
C8_ConfigDiscovery ==
    [][\A p \in Callers :
         (pc[p] = "orch" /\ ~ctxDone[p] /\ pc'[p] # "orch")
         => LET idx == SourceIndices(env) IN
            IF \A i \in idx : GetenvLoaderType(env, FmtInt(i)) # NoStr
            THEN /\ Len(sourceOptions') = Cardinality(idx)
                 /\ {sourceOptions'[k] : k \in 1..Len(sourceOptions')}
                      = {SourceOptionsOf(env, i) : i \in idx}
                 /\ idx # {} => pc'[p] = "src" /\ loc'[p].srcs = sourceOptions'
            ELSE /\ pc'[p] = "idle"
                 /\ ret'[p].err = "loading rules: loading configuration"
                 /\ ~initialized'
                 /\ store' = store
      ]_vars

\* discovery over the indices 0, 2 and 5 has produced three sources
C8_Witness ==
    \E p \in Callers :
        /\ pc[p] = "src"
        /\ SourceIndices(env) = {0, 2, 5}
        /\ Len(loc[p].srcs) = 3
        /\ \E v \in env : v.tok = TokX

\* ------------------------------------------------------------------ C9

\* C9: for each source the orchestrator calls the first registered loader
\* whose CanHandle accepts the type tag and no other; when none accepts, the
\* pass moves to the next source with the collected rules untouched and
\* without ending in an error.
C9_FirstMatchingLoader ==
    [][\A p \in Callers :
         (/\ impl = "modular" /\ pc[p] = "src" /\ ~ctxDone[p]
          /\ loc[p].si <= Len(loc[p].srcs)
          /\ Moves(p))
         => LET h == Handles(loc[p].srcs[loc[p].si].LoaderType)
                calls(l) == {d \in l.diag : d.ev = "call" /\ d.si = loc[p].si}
            IN  IF h = {}
                THEN /\ pc'[p] = "src"
                     /\ loc'[p].si = loc[p].si + 1
                     /\ loc'[p].allRules = loc[p].allRules
                     /\ calls(loc'[p]) = {}
                ELSE /\ pc'[p] = "ldr"
                     /\ loc'[p].ld = CHOOSE k \in h : \A j \in h : k <= j
                     /\ calls(loc'[p]) = {Diag("call", loc[p].si, "", "", loc'[p].ld)}
      ]_vars

\* with two loaders registered, one source was skipped for want of a loader,
\* another was loaded by the first loader, and LoadRules returned its rules
C9_Witness ==
    \E p \in Callers :
        /\ pc[p] = "add" /\ ~ctxDone[p]
        /\ Len(loaders) = 2
        /\ \E d \in loc[p].diag : d.ev = "no loader"
        /\ \E d \in loc[p].diag : d.ev = "call" /\ d.ld = 1
        /\ loc[p].allRules # <<>>

\* ------------------------------------------------------------------ C11

\* C11 as stated: LoadRules never returns successfully after a loader or the
\* parser has reported the cancellation of the context to it.
C11_CancellationPropagates ==
    \A p \in Callers :
        (impl = "modular" /\ pc[p] = "add")
        => \A d \in loc[p].diag :
             d.ev \in {"source error", "parse error"} => d.err # "cancelled"

\* ------------------------------------------------------------------ C12
\* the rules the tester can hand to the repository
Upsertable == CallerRules \cup {Held[i] : i \in 1..Len(Held)}

\* C12: AddRuleMetadata with a rule whose id is empty returns an error and
\* leaves the repository as it was; with a rule whose id is not empty and a
\* live context it succeeds, and GetRuleMetadataById of that id then returns
\* the rule.
C12_AddRuleMetadata ==
    [][\A rule \in Upsertable, done \in BOOLEAN :
         RepoAdd(rule, done)
         => /\ rule.RuleId = <<>> => (ret'[Tester].err # "" /\ store' = store)
            /\ (rule.RuleId # <<>> /\ ~done)
               => /\ ret'[Tester].err = ""
                  /\ GetRuleMetadataById(FALSE, store', rule.RuleId)
                       = [err |-> "", rules |-> <<rule>>]]_vars

\* a rule without id was refused while the repository holds a rule
C12_Witness ==
    /\ args[Tester].action = "AddRuleMetadata"
    /\ ret[Tester].err = "rule ID is required"
    /\ <<"x">> \in DOMAIN store

\* ------------------------------------------------------------------ C13
\* the ids a batch writes
BatchIds(batch) == {batch[i].RuleId : i \in 1..Len(batch)} \ {<<>>}

\* the last element of the batch with the id
LastWith(batch, id) ==
    batch[CHOOSE i \in 1..Len(batch) :
            /\ batch[i].RuleId = id
            /\ \A j \in (i + 1)..Len(batch) : batch[j].RuleId # id]

\* the call succeeded, every id of the batch holds the last element of the
\* batch with that id, every other entry is as it was
Applied(batch) ==
    /\ ret'[Tester].err = ""
    /\ DOMAIN store' = DOMAIN store \cup BatchIds(batch)
    /\ \A id \in DOMAIN store' :
         store'[id] = IF id \in BatchIds(batch) THEN LastWith(batch, id) ELSE store[id]

\* C13 as stated: every call of AddRulesMetadata returns success, stores for
\* each non-empty id of the batch the last batch element with that id, skips
\* the elements without id and leaves the entries of other ids unchanged.
C13_BatchAlwaysApplied ==
    [][\A batch \in Batches, done \in BOOLEAN :
         RepoAddAll(batch, done) => Applied(batch)]_vars

\* C13, amended: with a live context AddRulesMetadata returns success, stores
\* for each non-empty id of the batch the last batch element with that id,
\* skips the elements without id and leaves the entries of other ids
\* unchanged; with a cancelled context it returns the cancellation and leaves
\* the repository as it was.
C13_BatchApplied ==
    [][\A batch \in Batches, done \in BOOLEAN :
         RepoAddAll(batch, done)
         => IF done THEN ret'[Tester].err = "context canceled" /\ store' = store
            ELSE Applied(batch)]_vars

\* a batch replaced the rule of one id and left the rule of the other id
C13_Witness ==
    /\ args[Tester].action = "AddRulesMetadata"
    /\ ret[Tester].err = ""
    /\ DOMAIN store = {<<"x">>, <<"A", " ", "b">>}
    /\ store[<<"x">>] = rule1b

\* ------------------------------------------------------------------ C14
\* no rule was ever stored under the id: the repository has no operation that
\* removes an entry, so these are the ids the map does not hold
NeverInserted(ruleId) == ruleId \notin DOMAIN store

\* the absent outcome: no rule and no error
Absent_ ==
    /\ ret'[Tester].err = ""
    /\ Held' = <<>>

\* C14 as stated: for every id that was never inserted GetRuleMetadataById
\* returns the absent outcome, never an error.
C14_NeverInsertedIsAbsent ==
    [][\A ruleId \in CallerIds, done \in BOOLEAN :
         (RepoGet(ruleId, done) /\ NeverInserted(ruleId)) => Absent_]_vars

\* C14, amended: for every non-empty id that was never inserted
\* GetRuleMetadataById with a live context returns the absent outcome; for the
\* empty id, which can never be inserted, it returns the error "rule ID is
\* required", and with a cancelled context it returns the cancellation.
C14_NeverInsertedNonEmptyIsAbsent ==
    [][\A ruleId \in CallerIds, done \in BOOLEAN :
         (RepoGet(ruleId, done) /\ NeverInserted(ruleId))
         => IF done THEN ret'[Tester].err = "context canceled"
            ELSE IF ruleId = <<>> THEN ret'[Tester].err = "rule ID is required"
            ELSE Absent_]_vars

\* a query of an id the populated repository does not hold returned nothing
C14_Witness ==
    /\ args[Tester].action = "GetRuleMetadataById"
    /\ ret[Tester].err = ""
    /\ Held = <<>>
    /\ DOMAIN store = {<<"x">>, <<"A", " ", "b">>}

\* ------------------------------------------------------------------ C15
\* what a reader sees of a rule: its fields, with the tags read from the
\* backing array of the slice
View(rule) ==
    [RuleId |-> rule.RuleId, Description |-> rule.Description, Language |-> rule.Language,
     Tags |-> [isNil |-> rule.Tags.isNil, items |-> Elements(rule.Tags)],
     Source |-> rule.Source]

\* what the repository returns for each id, and what the tester reads in the
\* rules it holds
StoreView == [id \in DOMAIN store |-> View(store[id])]
HeldView == [i \in 1..Len(Held) |-> View(Held[i])]

\* C15 as stated: the sequence returned by GetAllRulesMetadata is an
\* independent snapshot: a later write to the repository never changes the
\* rules read in the returned sequence, and the caller changing the returned
\* sequence (an element or the tags of an element) never changes what the
\* repository returns afterwards.
C15_IndependentSnapshot ==
    [][(args[Tester].action = "GetAllRulesMetadata" /\ ret[Tester].err = "")
       => /\ \A rule \in Upsertable, done \in BOOLEAN :
               RepoAdd(rule, done) => HeldView' = HeldView
          /\ \A batch \in Batches, done \in BOOLEAN :
               RepoAddAll(batch, done) => HeldView' = HeldView
          /\ \A i \in 1..Len(Held) :
               (RepoSetElement(i) \/ RepoSetTag(i)) => StoreView' = StoreView]_vars

\* ------------------------------------------------------------------ C16
\* the rule a reader gets from GetRuleMetadataById with a live context
Stored(st, ruleId) == GetRuleMetadataById(FALSE, st, ruleId).rules

\* C16: a successful AddRuleMetadata of an id the repository holds, and a
\* successful AddRulesMetadata whose ids the repository all holds, replace
\* the stored rules as a whole: GetRuleMetadataById afterwards returns every
\* field of the rule written last and none of the rule it replaced, and the
\* number of stored rules is the same as before.
C16_LastWriteWins ==
    [][/\ \A rule \in Upsertable :
            (RepoAdd(rule, FALSE) /\ rule.RuleId \in DOMAIN store)
            => /\ Stored(store', rule.RuleId) = <<rule>>
               /\ Cardinality(DOMAIN store') = Cardinality(DOMAIN store)
       /\ \A batch \in Batches :
            (RepoAddAll(batch, FALSE) /\ BatchIds(batch) \subseteq DOMAIN store)
            => /\ \A id \in BatchIds(batch) : Stored(store', id) = <<LastWith(batch, id)>>
               /\ Cardinality(DOMAIN store') = Cardinality(DOMAIN store)]_vars

\* the tester holds the rule it read for an id, and the repository now holds
\* for that id a rule that differs from it in every field but the id
C16_Witness ==
    /\ args[Tester].action \in {"AddRuleMetadata", "AddRulesMetadata"}
    /\ ret[Tester].err = ""
    /\ Held = <<rule1>>
    /\ Stored(store, <<"x">>) = <<rule1b>>

\* ------------------------------------------------------------------ C17
\* the tools loading a directory of any content and answering a query,
\* together with the parser and the repository called directly
InitStores == InitLoader \/ InitRepo

NextStores ==
    \/ NextLoader
    \/ NextRepo

SpecStores == InitStores /\ [][NextStores]_vars

\* the id of a rule of either tool
IdOf(rule) == IF "RuleId" \in DOMAIN rule THEN rule.RuleId ELSE rule.ID

NoEmptyId(rules) == \A i \in 1..Len(rules) : IdOf(rules[i]) # <<>>

\* no rule without id is stored, collected by a load or returned by Execute
NoEmptyIdKept ==
    /\ \A id \in DOMAIN store : id # <<>> /\ IdOf(store[id]) # <<>>
    /\ \A p \in Callers :
         /\ \A e \in ret[p].out : e.ruleId # <<>>
         /\ pc[p] # "test"
            => /\ NoEmptyId(loc[p].rules)
               /\ NoEmptyId(loc[p].lret.rules)
               /\ NoEmptyId(loc[p].allRules)

\* no rule without id is returned by the parser or by a query of the
\* repository
NoEmptyIdReturned ==
    /\ \A name \in {"r1.yaml", "r2.yaml", "r3.yaml", "none.yaml"}, done \in BOOLEAN :
         RepoParse(name, done) => NoEmptyId(Held')
    /\ \A ruleId \in CallerIds, done \in BOOLEAN : RepoGet(ruleId, done) => NoEmptyId(Held')
    /\ \A done \in BOOLEAN : RepoGetAll(done) => NoEmptyId(Held')

\* C17: in every reachable state, after any sequence of parsing, loading,
\* initialisation, AddRuleMetadata, AddRulesMetadata and queries, no rule
\* with an empty id is stored in the repository or in the simple tool's map,
\* and none is returned by a query or by the parser.
C17_NoEmptyId == []NoEmptyIdKept /\ [][NoEmptyIdReturned]_vars

\* a tool answered a query with a rule after it had refused a file whose rule
\* has no id
C17_Witness ==
    \E p \in Callers :
        /\ pc[p] = "idle"
        /\ ret[p].n >= 1
        /\ \E d \in loc[p].diag : d.ev = "parse error" /\ d.err = "rule ID is required"

\* ------------------------------------------------------------------ C18
\* the files of the rules directory that the tool's scan lists and its parser
\* accepts
Accepted ==
    {f \in {fs[PathA].files[i] : i \in 1..Len(fs[PathA].files)} :
        /\ GoodFile(f)
        /\ f.ext = "yaml" \/ (impl = "simple" /\ f.ext = "yml")}

\* the content GetRuleContentById returns for a stored rule
ContentOf(rule) ==
    IF impl = "simple" THEN rule.Content ELSE GetRuleContent(FALSE, fs, rule.Source).text

\* the rule of every accepted file is stored under its normalised id, and the
\* content of that id is the content of an accepted file with that id
StoredNormalised ==
    \A f \in Accepted :
        LET id == ToLower(ReplaceSpaces(f.doc.id)) IN
        /\ id \in DOMAIN store
        /\ IdOf(store[id]) = id
        /\ \E g \in Accepted :
             ToLower(ReplaceSpaces(g.doc.id)) = id /\ ContentOf(store[id]) = g.doc.rule

\* C18 as stated: once the tool is initialised, the rule of every parsed file
\* is stored under its normalised id (lower case, hyphens for spaces) and the
\* content query of that id returns the file's content.
C18_StoredUnderNormalisedId == initialized => StoredNormalised

\* ------------------------------------------------------------------ C19
\* the characters of the ids: a letter in both cases, the space and the hyphen
IdAlphabet == {"A", "a", " ", "-"}

\* every id of up to MaxIdLen characters
Ids == UNION {[1..n -> IdAlphabet] : n \in 0..MaxIdLen}

\* one Execute on a tool whose directory holds one rule file with any id
InitIds ==
    /\ impl \in {"simple", "modular"}
    /\ env = IF impl = "simple" THEN {RuleDirectoryVar(PathA)}
             ELSE Working(Tok0, YamlFile, PathA)
    /\ \E id \in Ids : fs = FileSystem(<<File("f1", "yaml", Doc(id, "first", "content a"))>>, <<>>)
    /\ loaders = <<1>>
    /\ InitTool
    /\ InitCallers("idle")
    /\ callsLeft = 1
    /\ editsLeft = 0

SpecIds == InitIds /\ [][NextLoader]_vars

\* the id written in the rule file
WrittenId == fs[PathA].files[1].doc.id

\* C19: normalising a normalised id gives the same id, for every id a rule
\* file can hold, and every id under which parseRuleFile's rule is stored is
\* a fixed point of the normalisation.
C19_NormalisationIdempotent ==
    /\ ToLower(ReplaceSpaces(ToLower(ReplaceSpaces(WrittenId)))) = ToLower(ReplaceSpaces(WrittenId))
    /\ impl = "simple"
       => \A id \in DOMAIN store :
            /\ store[id].ID = id
            /\ ToLower(ReplaceSpaces(id)) = id

\* the simple tool stores under a-a the rule whose file gives the id "A a"
C19_Witness ==
    /\ impl = "simple"
    /\ WrittenId = <<"A", " ", "a">>
    /\ DOMAIN store = {<<"a", "-", "a">>}

\* ------------------------------------------------------------------ C20
\* the stored rule is the outcome of parsing a rule file: the rules the
\* tester builds itself name files outside the rules directory
FromFile(rule) == rule.Source.dir = PathA

\* the rule has the id, description, language and tags of the document, and
\* its source yields the document's content
Carries(rule, doc) ==
    /\ rule.RuleId = doc.id
    /\ rule.Description = doc.description
    /\ rule.Language = doc.language
    /\ Elements(rule.Tags) = doc.tags.items
    /\ GetRuleContent(FALSE, fs, rule.Source) = [err |-> "", text |-> doc.rule]

\* C20: a rule that ParseRule produced from a valid document and that
\* AddRuleMetadata stored is returned by GetRuleMetadataById of the
\* document's id with exactly the document's id, description, language and
\* tags, and with a source whose content is the document's content.
C20_RoundTrip ==
    [][\A ruleId \in CallerIds :
         (RepoGet(ruleId, FALSE) /\ ruleId \in DOMAIN store /\ FromFile(store[ruleId]))
         => LET doc == FileDoc(fs, PathA, store[ruleId].Source.name) IN
            /\ GoodFile([doc |-> doc])
            /\ doc.id = ruleId
            /\ ret'[Tester].err = ""
            /\ Len(Held') = 1
            /\ Carries(Held'[1], doc)]_vars

\* the tester holds what GetRuleMetadataById returned for the rule of r1.yaml
C20_Witness ==
    /\ args[Tester].action = "GetRuleMetadataById"
    /\ ret[Tester].err = ""
    /\ Len(Held) = 1
    /\ Held[1].Source = [dir |-> PathA, name |-> "r1.yaml"]
    /\ Held[1].Language = "go"

\* ------------------------------------------------------------------ C21
\* C21: every entry of a successful GetAllRulesMetadata is the id,
\* description, language and tags of a stored rule and has no content field,
\* whatever rules the store holds.
C21_MetadataWithoutContent ==
    \A p \in Callers :
        (pc[p] = "idle" /\ args[p].action = "GetAllRulesMetadata" /\ ret[p].err = "")
        => \A e \in ret[p].out :
             /\ ~e.hasContent
             /\ e.content = ""
             /\ \E id \in DOMAIN store :
                  /\ e.ruleId = IdOf(store[id])
                  /\ e.description = store[id].Description
                  /\ e.language = store[id].Language
                  /\ e.tags = store[id].Tags

\* GetAllRulesMetadata answered with the entries of two stored rules
C21_Witness ==
    \E p \in Callers :
        /\ pc[p] = "idle" /\ args[p].action = "GetAllRulesMetadata" /\ ret[p].err = ""
        /\ ret[p].n = 2
        /\ Cardinality(DOMAIN store) = 2

\* ------------------------------------------------------------------ C22
\* the caller's GetRuleContentById returns in this step
ContentQueryReturns(p) ==
    /\ pc[p] \in {"dispatch", "content"}
    /\ pc'[p] = "idle"
    /\ args'[p].action = "GetRuleContentById"
    /\ args'[p].ruleId # <<>>

\* the outcome of the query of a stored rule: the rule with its content, or
\* the failure of the rule's source and no result
PresentOutcome(p) ==
    LET rule == store[args'[p].ruleId]
        c == IF impl = "simple" THEN [err |-> "", text |-> rule.Content]
             ELSE GetRuleContent(ctxDone[p], fs, rule.Source)
    IN  IF c.err = ""
        THEN /\ ret'[p].err = ""
             /\ ret'[p].out = {[ruleId |-> IdOf(rule), description |-> rule.Description,
                                language |-> rule.Language, tags |-> rule.Tags,
                                content |-> c.text, hasContent |-> TRUE]}
        ELSE /\ ret'[p].err # ""
             /\ ret'[p].out = {}

\* C22 as stated: GetRuleContentById of an id the store does not hold fails
\* with the not-found error and returns nothing; of an id the store holds it
\* returns id, description, language, tags and content, unless the rule's
\* source fails, and then the call fails and returns nothing.
C22_NotFoundOrContent ==
    [][\A p \in Callers :
         ContentQueryReturns(p)
         => IF args'[p].ruleId \notin DOMAIN store
            THEN ret'[p].err = "rule not found" /\ ret'[p].out = {}
            ELSE PresentOutcome(p)]_vars

\* C22, amended: GetRuleContentById of an id the store does not hold never
\* succeeds: it fails with the not-found error, or, in the modular tool
\* when the caller's context is cancelled, with the cancellation that the
\* repository's lookup returns; of an id the store holds it returns id,
\* description, language, tags and content, unless the lookup or the rule's
\* source fails, and then the call fails and returns nothing.
C22_NeverEmptySuccess ==
    [][\A p \in Callers :
         ContentQueryReturns(p)
         => IF args'[p].ruleId \notin DOMAIN store
            THEN /\ ret'[p].out = {}
                 /\ ret'[p].err = IF impl = "modular" /\ ctxDone[p]
                                  THEN "getting rule metadata: context canceled"
                                  ELSE "rule not found"
            ELSE PresentOutcome(p)]_vars

\* the query of a stored rule failed because the rule's file is no longer YAML
C22_Witness ==
    \E p \in Callers :
        /\ pc[p] = "idle"
        /\ args[p] = [action |-> "GetRuleContentById", ruleId |-> <<"a">>]
        /\ <<"a">> \in DOMAIN store
        /\ ret[p].err = "error parsing YAML"
        /\ ret[p].out = {}

\* ------------------------------------------------------------------ C23
\* C23: in the modular tool every GetRuleContentById that reaches the rule's
\* source with a live context reads the rule's file as it is at that moment:
\* it returns the rule field the file has now, whatever the file held when
\* the rule was loaded, and fails when the file can no longer be read, is no
\* longer YAML or has no string rule field; no new load pass is needed.
C23_NoCaching ==
    [][\A p \in Callers :
         (impl = "modular" /\ pc[p] = "content" /\ pc'[p] = "idle" /\ ~ctxDone[p])
         => LET source == store[args[p].ruleId].Source
                now == IF HasFile(fs, source.dir, source.name)
                       THEN FileDoc(fs, source.dir, source.name)
                       ELSE Unreadable
            IN  /\ loadPasses' = loadPasses
                /\ IF now.readable /\ now.yaml /\ now.ruleIsString
                   THEN /\ ret'[p].err = ""
                        /\ ret'[p].n = 1
                        /\ \A e \in ret'[p].out : e.content = now.rule
                   ELSE ret'[p].err # "" /\ ret'[p].out = {}]_vars

\* after one load pass one caller has got the content the file had at first
\* and another caller the content written into the file later
C23_Witness ==
    /\ impl = "modular"
    /\ loadPasses = 1
    /\ \E p, q \in Callers :
         /\ pc[p] = "idle" /\ pc[q] = "idle"
         /\ \E e \in ret[p].out : e.hasContent /\ e.content = "content a"
         /\ \E e \in ret[q].out : e.hasContent /\ e.content = "content new"

\* ------------------------------------------------------------------ C24
\* C24: once the simple tool is initialised no step of a request changes the
\* rule map, the flag or the file system, and GetRuleContentById of a stored
\* rule succeeds with the content the map holds, which is the content read
\* when the rule was loaded, whatever the rule's file has become.
C24_LoadTimeContent ==
    [][impl = "simple"
       => /\ initialized
             => /\ store' = store
                /\ initialized'
                /\ fs' # fs => editsLeft' < editsLeft
          /\ \A p \in Callers :
               (ContentQueryReturns(p) /\ args'[p].ruleId \in DOMAIN store)
               => LET rule == store[args'[p].ruleId] IN
                  /\ ret'[p].err = ""
                  /\ ret'[p].out = {[ruleId |-> rule.ID, description |-> rule.Description,
                                     language |-> rule.Language, tags |-> rule.Tags,
                                     content |-> rule.Content, hasContent |-> TRUE]}]_vars

\* the simple tool answered with the content it loaded although the rule's
\* file is gone or holds something else
C24_Witness ==
    /\ impl = "simple"
    /\ \E p \in Callers :
         /\ pc[p] = "idle"
         /\ args[p] = [action |-> "GetRuleContentById", ruleId |-> <<"a">>]
         /\ \E e \in ret[p].out : e.content = "content a"
         /\ GetRuleContent(FALSE, fs, store[<<"a">>].FilePath).text # "content a"
         /\ editsLeft = 0

\* ------------------------------------------------------------------ C25
\* every readable, well-formed document: each of id, description and rule
\* present or not (the rule also as an empty string), with and without
\* language and tags
Docs ==
    LET all == { [Doc(id, d, r) EXCEPT !.language = l, !.tags = t, !.ruleIsString = s] :
                   id \in {<<>>, <<"a">>}, d \in {"", "first"},
                   r \in {"", "content a"}, l \in {"", "go"},
                   t \in {NoTags, TagList(<<"test">>)}, s \in BOOLEAN }
    IN  {doc \in all : doc.rule # "" => doc.ruleIsString}

\* one Execute on a tool whose directory holds one file with any document
InitDocs ==
    /\ impl \in {"simple", "modular"}
    /\ env = IF impl = "simple" THEN {RuleDirectoryVar(PathA)}
             ELSE Working(Tok0, YamlFile, PathA)
    /\ \E doc \in Docs : fs = FileSystem(<<File("f1", "yaml", doc)>>, <<>>)
    /\ loaders = <<1>>
    /\ InitTool
    /\ InitCallers("idle")
    /\ callsLeft = 1
    /\ editsLeft = 0

SpecDocs == InitDocs /\ [][NextLoader]_vars

\* C25: either parser, given a readable, well-formed document, fails exactly
\* when id, description or rule is empty, with the error of the first of
\* them that is empty in the order id, description, rule; an absent language
\* or absent tags never make it fail.
C25_RequiredFields ==
    [][\A p \in Callers :
         (/\ ~ctxDone[p]
          /\ loc'[p] # loc[p]
          /\ \/ impl = "modular" /\ pc[p] = "parse" /\ pc'[p] = "file"
             \/ impl = "simple" /\ pc[p] = "sfile" /\ pc'[p] = "sfile")
         => LET l == loc[p]
                doc == FileDoc(fs, l.path, l.files[l.fi])
                expected == IF doc.id = <<>> THEN "rule ID is required"
                            ELSE IF doc.description = "" THEN "rule description is required"
                            ELSE IF doc.rule = "" THEN "rule content is required"
                            ELSE ""
            IN  IF expected = ""
                THEN /\ Len(loc'[p].rules) = Len(l.rules) + 1
                     /\ loc'[p].diag = l.diag
                ELSE /\ loc'[p].rules = l.rules
                     /\ loc'[p].diag = l.diag \cup
                          {Diag("parse error", l.si, l.files[l.fi], expected, l.ld)}]_vars

\* a document without id and without description was refused for its id
C25_Witness ==
    \E p \in Callers :
        /\ FileDoc(fs, PathA, "f1").id = <<>>
        /\ FileDoc(fs, PathA, "f1").description = ""
        /\ \E d \in loc[p].diag : d.ev = "parse error" /\ d.err = "rule ID is required"

\* ------------------------------------------------------------------ C26
\* one Execute on the modular tool whose single source names a directory of
\* rules, a regular file, a path that does not exist, an empty path or no
\* path at all
InitPaths ==
    /\ impl = "modular"
    /\ env \in {Working(Tok0, YamlFile, path) : path \in {PathA, PathB, PathMissing, NoStr}}
                 \cup {{LoaderTypeVar(Tok0, YamlFile)}}
    /\ fs = [FileSystem(FilesA, <<>>) EXCEPT ![PathB] = RegularFile]
    /\ loaders = <<1>>
    /\ InitTool
    /\ InitCallers("idle")
    /\ callsLeft = 1
    /\ editsLeft = 0

SpecPaths == InitPaths /\ [][NextOrch]_vars

\* C26 as stated: YamlRuleLoader.LoadRules, called with a live context and
\* settings that have no non-empty Path or whose Path is not an existing
\* directory (a missing path or a regular file), returns an error at once:
\* it lists and parses no file and returns no rule.
C26_PathMustBeDirectory ==
    [][\A p \in Callers :
         (pc[p] = "ldr" /\ pc'[p] # "ldr" /\ ~ctxDone[p])
         => LET settings == loc[p].srcs[loc[p].si].Settings
                noPath == "Path" \notin DOMAIN settings \/ settings["Path"] = NoStr
                notDir == \/ settings["Path"] \notin DOMAIN fs
                          \/ fs[settings["Path"]].kind # "dir"
            IN  (noPath \/ notDir)
                => /\ pc'[p] = "ldrRet"
                   /\ loc'[p].lret.err # ""
                   /\ loc'[p].lret.rules = <<>>
                   /\ loc'[p].files = <<>>]_vars

\* ------------------------------------------------------------------ C27
\* C27: the tags of every rule a parser has produced, of every rule in the
\* store and of every entry a metadata or content query has returned are a
\* list, possibly empty, and never nil, whether or not the document had tags.
C27_TagsNeverNull ==
    /\ \A p \in Callers :
         /\ \A i \in DOMAIN loc[p].rules : ~loc[p].rules[i].Tags.isNil
         /\ \A i \in DOMAIN loc[p].lret.rules : ~loc[p].lret.rules[i].Tags.isNil
         /\ \A i \in DOMAIN loc[p].allRules : ~loc[p].allRules[i].Tags.isNil
         /\ \A e \in ret[p].out : ~e.tags.isNil
    /\ \A id \in DOMAIN store : ~store[id].Tags.isNil

\* a query answered with a rule of empty tags whose document has no tags
C27_Witness ==
    \E p \in Callers :
        /\ pc[p] = "idle" /\ ret[p].err = ""
        /\ FileDoc(fs, PathA, "f1").tags.isNil
        /\ \E e \in ret[p].out : e.tags = TagList(<<>>)

\* ------------------------------------------------------------------ C28
\* two Executes on a tool whose rules directory holds no rule file, holds
\* one, or does not exist (for the simple tool also the default directory
\* under the home directory, which does not exist)
InitDirs ==
    /\ impl \in {"simple", "modular"}
    /\ env \in IF impl = "simple"
               THEN {{RuleDirectoryVar(path)} : path \in {PathA, PathB, PathMissing}} \cup {{}}
               ELSE {Working(Tok0, YamlFile, path) : path \in {PathA, PathB, PathMissing}}
    /\ fs = FileSystem(<<File("notes.txt", "txt", Doc(<<"a">>, "first", "content a"))>>,
                       <<File("a1.yaml", "yaml", Doc(<<"a">>, "first", "content a"))>>)
    /\ loaders = <<1>>
    /\ InitTool
    /\ InitCallers("idle")
    /\ callsLeft = 2
    /\ editsLeft = 0

SpecDirs == InitDirs /\ [][NextLoader]_vars

\* C28: when the simple tool initialises and its rules directory does not
\* exist or holds no .yaml and no .yml file, the directory exists afterwards,
\* the initialisation succeeds with no rule loaded and the tool is ready;
\* and GetAllRulesMetadata on the ready tool without rules succeeds with an
\* empty list and count 0.
C28_EmptyDirectoryIsReady ==
    /\ [][\A p \in Callers :
            LET dir == getRulesDirectory(env) IN
            (/\ impl = "simple"
             /\ pc[p] = "sbegin" /\ pc'[p] # "sbegin"
             /\ \/ IsNotExist(fs, dir)
                \/ fs[dir].kind = "dir" /\ Glob(fs, dir, "yaml") \o Glob(fs, dir, "yml") = <<>>)
            => /\ fs'[dir].kind = "dir"
               /\ initialized'
               /\ pc'[p] = "dispatch"
               /\ ret'[p].err = ""
               /\ store' = <<>>]_vars
    /\ [](\A p \in Callers :
            (/\ impl = "simple" /\ initialized /\ store = <<>>
             /\ pc[p] = "idle" /\ args[p].action = "GetAllRulesMetadata")
            => ret[p] = [err |-> "", out |-> {}, n |-> 0])

\* the simple tool created its missing directory, is ready without rules and
\* answered GetAllRulesMetadata with count 0
C28_Witness ==
    \E p \in Callers :
        /\ impl = "simple" /\ initialized /\ store = <<>>
        /\ getRulesDirectory(env) = PathMissing /\ fs[PathMissing].kind = "dir"
        /\ pc[p] = "idle" /\ args[p].action = "GetAllRulesMetadata"
        /\ ret[p] = [err |-> "", out |-> {}, n |-> 0]

\* ------------------------------------------------------------------ C29
\* C29 as stated: the initialized flag changes only under the initialisation
\* lock, which is another lock than the one of the rule store, and no caller
\* holds the write lock of the rule store while its load pass runs (from the
\* start of the pass to the rules it returns).
C29_LoadOutsideStoreLock ==
    /\ [][initialized' # initialized => initMutex # 0]_vars
    /\ [](\A p \in Callers : (pc[p] \in {"orch", "sbegin"} \/ Loading(p)) => mu.w # p)

\* ------------------------------------------------------------------ C30
\* the rules are the state between two bulk upserts: the two ids the bulk
\* upserts write are both absent or both present, and both from the same one
Whole(rules) ==
    LET xs == {r \in rules : r.RuleId = rule1.RuleId}
        ys == {r \in rules : r.RuleId = rule2.RuleId}
    IN  /\ xs = {} <=> ys = {}
        /\ \A a \in xs, b \in ys : a.Description = rule1.Description
                                   <=> b.Description = rule2.Description

\* C30: a goroutine inside the critical section of AddRuleMetadata or
\* AddRulesMetadata is alone there, with no other writer and no reader
\* inside theirs; the map a reader (GetAllRulesMetadata or
\* GetRuleMetadataById) finds inside its critical section, and every result
\* GetAllRulesMetadata returns, hold each bulk upsert entirely or not at all.
C30_ReadersWriterDiscipline ==
    /\ \A p, q \in Callers :
         (pc[p] = "write" /\ q # p) => pc[q] \notin {"write", "read"}
    /\ \A p \in Callers :
         /\ pc[p] = "read" => Whole({store[id] : id \in DOMAIN store})
         /\ (pc[p] = "test" /\ args[p].action = "GetAllRulesMetadata" /\ ret[p].err = "")
            => Whole({loc[p].lret.rules[i] : i \in 1..Len(loc[p].lret.rules)})

\* two readers are inside their critical sections at once, on a repository
\* that holds the rules of a bulk upsert
C30_Witness ==
    \E p, q \in Callers :
        /\ p # q
        /\ pc[p] = "read" /\ pc[q] = "read"
        /\ mu.r = {p, q}
        /\ rule2.RuleId \in DOMAIN store

\* ------------------------------------------------------------------ C31
\* the queries of a rule by an id as a person writes it, by its normalised
\* form and by a third spelling, the metadata query, and the calls Execute
\* refuses: without ruleId, without action, with an action it does not know
QueryChoices ==
    {[action |-> "GetRuleContentById", ruleId |-> id] :
        id \in {<<"A", " ", "b">>, <<"a", "-", "b">>, <<"A", "-", "b">>, <<>>}}
    \cup {[action |-> a, ruleId |-> <<>>] : a \in {"GetAllRulesMetadata", "", "InvalidAction"}}

\* a tool whose directory holds one rule file with the id as a person writes
\* it, or two rule files, one with the normalised form of that id and one
\* with the id as written
InitQueries ==
    /\ impl \in {"simple", "modular"}
    /\ env \in IF impl = "simple"
               THEN {{RuleDirectoryVar(path)} : path \in {PathA, PathB}}
               ELSE {Working(Tok0, YamlFile, path) : path \in {PathA, PathB}}
    /\ fs = FileSystem(<<File("a1.yaml", "yaml", Doc(<<"A", " ", "b">>, "first", "content a"))>>,
                       <<File("b1.yaml", "yaml", Doc(<<"a", "-", "b">>, "other", "content e")),
                         File("b2.yaml", "yaml", Doc(<<"A", " ", "b">>, "third", "content c"))>>)
    /\ loaders = <<1>>
    /\ InitTool
    /\ InitCallers("idle")
    /\ callsLeft = MaxCalls
    /\ editsLeft = 0

NextQueries ==
    \E p \in Callers :
        \/ Call(p)
        \/ Cancel(p)
        \/ Acquire(p)
        \/ OrchBegin(p)
        \/ SrcBegin(p)
        \/ LoaderBegin(p)
        \/ FileCheck(p)
        \/ ParseStep(p)
        \/ OrchCollect(p)
        \/ AddRules(p)
        \/ \E a \in QueryChoices : Dispatch(p, a)
        \/ Content(p)
        \/ AcquireSimple(p)
        \/ BeginSimple(p)
        \/ FileSimple(p)
        \/ \E a \in QueryChoices : DispatchSimple(p, a)

SpecQueries == InitQueries /\ [][NextQueries]_vars

\* C31: GetRuleContentById with a query id returns a rule only if the id is
\* exactly a stored id, and then that rule; a query id that is not stored
\* itself fails without a result, with the not-found error when the caller's
\* context is live, also when its normalised form is a stored id.
C31_LookupIsExact ==
    [][\A p \in Callers :
         (/\ pc[p] \in {"dispatch", "content"} /\ pc'[p] = "idle"
          /\ args'[p].action = "GetRuleContentById"
          /\ args'[p].ruleId # <<>>)
         => LET q == args'[p].ruleId IN
            /\ ret'[p].err = ""
               => /\ q \in DOMAIN store
                  /\ \A e \in ret'[p].out : e.ruleId = q
            /\ q \notin DOMAIN store
               => /\ ret'[p].out = {}
                  /\ ret'[p].err # ""
                  /\ ~ctxDone[p] => ret'[p].err = "rule not found"]_vars

\* the query of "A b" was answered not-found by a tool that stores "a-b"
C31_Witness ==
    \E p \in Callers :
        /\ pc[p] = "idle"
        /\ args[p] = [action |-> "GetRuleContentById", ruleId |-> <<"A", " ", "b">>]
        /\ ret[p].err = "rule not found"
        /\ DOMAIN store = {<<"a", "-", "b">>}

\* ------------------------------------------------------------------ C32
\* C32: at most one caller is inside the orchestrator's LoadRules at any
\* time, whatever attempts failed before and whoever retries; sourceOptions
\* is written only by the caller that begins its pass while no other caller
\* is inside LoadRules, and it stays what that caller wrote for as long as
\* its pass reads it.
C32_PassesNeverOverlap ==
    /\ [](\A p, q \in Callers :
            (/\ impl = "modular"
             /\ pc[p] = "orch" \/ Loading(p)
             /\ pc[q] = "orch" \/ Loading(q)) => p = q)
    /\ [](\A p \in Callers : (impl = "modular" /\ Loading(p)) => sourceOptions = loc[p].srcs)
    /\ [][sourceOptions' # sourceOptions
          => \E p \in Callers :
               /\ pc[p] = "orch" /\ initMutex = p
               /\ \A q \in Callers : (pc[q] = "orch" \/ Loading(q)) => q = p]_vars

\* after a failed attempt a pass is running while the other caller has
\* called Execute again and waits for the lock
C32_Witness ==
    \E p, q \in Callers :
        /\ p # q
        /\ impl = "modular"
        /\ loadPasses >= 2
        /\ Loading(p) /\ initMutex = p
        /\ pc[q] = "init"
        /\ ~initialized

\* ------------------------------------------------------------------ C33
\* the callers of Spec, each goroutine scheduled again and again: a step
\* that stays possible for a caller is taken
SpecLive == Spec /\ \A p \in Callers : WF_vars(Run(p))

C34_ReadyIsAbsorbing ==
    /\ [][initialized => /\ initialized'
                         /\ store' = store
                         /\ loadPasses' = loadPasses
                         /\ \A p \in Callers : ~Initialising(p)']_vars
    /\ [](\A p \in Callers :
            (pc[p] = "idle" /\ args[p].action = "GetAllRulesMetadata" /\ ret[p].err = "")
            => /\ initialized
               /\ ret[p].out = {Metadata(id, store[id]) : id \in DOMAIN store})

\* two GetAllRulesMetadata calls have returned the two rules of the load
\* pass, the second after the first rule's file was removed and a file
\* added
C34_Witness ==
    \E p, q \in Callers :
        /\ p # q
        /\ pc[p] = "idle" /\ args[p].action = "GetAllRulesMetadata" /\ ret[p].n = 2
        /\ pc[q] = "idle" /\ args[q].action = "GetAllRulesMetadata" /\ ret[q].n = 2
        /\ ret[p].out = ret[q].out
        /\ ~HasFile(fs, PathA, "a1.yaml")
        /\ HasFile(fs, PathA, "a3.yaml")
        /\ loadPasses = 1

\* ------------------------------------------------------------------ C35
\* C35: in the modular tool the repository changes only in the step in
\* which the bulk upsert after a finished LoadRules succeeds and makes the
\* tool initialised; an initialisation attempt that fails does not change
\* it, so the repository of a tool that is not initialised is as
\* NewInMemoryRepository made it.
C35_FailedInitWritesNothing ==
    /\ [][impl = "modular"
          => /\ store' # store
                => \E p \in Callers : /\ pc[p] = "add" /\ pc'[p] = "dispatch"
                                      /\ ~initialized /\ initialized'
                                      /\ store' = AddRulesMetadata(store, loc[p].allRules)
             /\ \A p \in Callers :
                  (Initialising(p) /\ pc'[p] = "idle") => store' = store]_vars
    /\ []((impl = "modular" /\ ~initialized) => store = <<>>)

\* the bulk upsert of loaded rules failed for a cancelled context and the
\* repository is empty
C35_Witness ==
    \E p \in Callers :
        /\ impl = "modular"
        /\ pc[p] = "idle"
        /\ ret[p].err = "adding rules to repository: context canceled"
        /\ ~initialized
        /\ store = <<>>
        /\ loadPasses >= 1

\* ------------------------------------------------------------------ C36
\* C36 as stated: while the simple tool is not initialised and no caller is
\* initialising it, its rule map is as init() made it: a failed
\* initialisation has left no rule behind.
C36_FailedInitLeavesNoRule ==
    (/\ impl = "simple"
     /\ ~initialized
     /\ \A p \in Callers : ~Initialising(p))
    => store = <<>>

\* ------------------------------------------------------------------ C37
\* C37 as stated: the repository a successful initialisation of the modular
\* tool leaves is the one every order of processing the configured sources
\* leaves: each stored rule comes from the directory of the source that
\* holds its id and is processed last, whichever order is taken.
C37_OrderIndependent ==
    \A p \in Callers :
        (impl = "modular" /\ loc[p].ok)
        => LET srcs == loc[p].srcs
               holds(i, id) == /\ SourceLoads(srcs[i])
                               /\ fs[srcs[i].Settings["Path"]].kind = "dir"
                               /\ id \in GoodIds(fs, srcs[i].Settings["Path"])
           IN  \A order \in Orders(1..Len(srcs)) :
                 \A id \in DOMAIN store :
                   \E j \in 1..Len(srcs) :
                     /\ holds(order[j], id)
                     /\ \A k \in (j + 1)..Len(srcs) : ~holds(order[k], id)
                     /\ store[id].Source.dir = srcs[order[j]].Settings["Path"]

\* ------------------------------------------------------------------ C38
\* C38 as stated: after a successful initialisation, for every file of the
\* loaded directory that the parser accepted there is a stored id whose rule
\* is the rule of that file: its description and its content.
C38_EveryParsedFileStored ==
    \A p \in Callers :
        loc[p].ok
        => \A i \in 1..Len(fs[loc[p].path].files) :
             LET f == fs[loc[p].path].files[i] IN
             (GoodFile(f) /\ (f.ext = "yaml" \/ (impl = "simple" /\ f.ext = "yml")))
             => \E id \in DOMAIN store :
                  /\ store[id].Description = f.doc.description
                  /\ IF impl = "simple"
                     THEN store[id].Content = f.doc.rule /\ store[id].FilePath.name = f.name
                     ELSE store[id].Source.name = f.name

\* ------------------------------------------------------------------ C39
\* C39: every Execute begins with ensureInitialized, whatever its
\* arguments; an Execute that fails there returns the initialisation error
\* and leaves the tool uninitialised; the errors for a missing action, an
\* unknown action and a missing ruleId are returned by an initialised tool
\* only, for exactly those arguments, with no result and the rules
\* unchanged.
C39_InitBeforeValidation ==
    /\ [](\A p \in Callers :
            (/\ pc[p] = "idle"
             /\ ret[p].err \in {"action parameter is required", "unknown action",
                                "ruleId parameter is required"})
            => initialized)
    /\ [][\A p \in Callers :
            /\ (pc[p] = "idle" /\ pc'[p] # "idle") => pc'[p] = "init"
            /\ (Initialising(p) /\ pc'[p] = "idle")
               => ret'[p].err \in InitErrors /\ ~initialized'
            /\ (/\ pc[p] = "dispatch" /\ pc'[p] = "idle"
                /\ \/ args'[p].action \notin {"GetAllRulesMetadata", "GetRuleContentById"}
                   \/ args'[p].action = "GetRuleContentById" /\ args'[p].ruleId = <<>>)
               => /\ initialized /\ initialized'
                  /\ store' = store
                  /\ ret'[p].out = {}
                  /\ ret'[p].err = IF args'[p].action = ""
                                   THEN "action parameter is required"
                                   ELSE IF args'[p].action = "GetRuleContentById"
                                   THEN "ruleId parameter is required"
                                   ELSE "unknown action"]_vars

\* the first Execute on the tool had an unknown action: it ran the load
\* pass, made the tool Ready and returned the argument error
C39_Witness ==
    \E p \in Callers :
        /\ callsLeft = MaxCalls - 1
        /\ pc[p] = "idle"
        /\ args[p].action = "InvalidAction"
        /\ ret[p].err = "unknown action"
        /\ loc[p].ok
        /\ initialized
        /\ loadPasses = 1
        /\ DOMAIN store # {}

====
